---- MODULE Spec2Model ----
(***************************************************************************)
(* Model of the Lean 4 Copilot chat participant (src/src/chat/participant.ts *)
(* with the prompt elements of src/unnamed/part_002 and the reference       *)
(* helpers of src/src/chat/references.ts).                                  *)
(*                                                                         *)
(* One chat turn is a run of lean4CopilotChatHandler.  The language model,  *)
(* the tool registry and the tools are the host's: the model's response     *)
(* stream, a failing request and a failing tool are inputs chosen by the     *)
(* environment at the await points of the code.                              *)
(***************************************************************************)
EXTENDS Naturals, Sequences, FiniteSets

(***************************************************************************)
(* Bounds of the model.                                                    *)
(***************************************************************************)
\* model requests (sendRequest) the environment answers in one turn
MaxDispatch == 3
\* tool-call parts the model streams in one turn, over all dispatches
MaxCalls == 2
\* text parts the model streams in one turn, over all dispatches
MaxText == 1
\* references carried by one request
MaxRefs == 3
\* models selectChatModels may find for copilot / gpt-4o
MaxModels == 2
\* tool-call parts the model may stream in each of the concurrent turns
MaxTurnCalls == 1
\* feedback signals and follow-up requests the host sends
MaxFeedback == 3
\* text parts the model streams in a turn whose stream handling is examined
MaxStreamText == 2
\* tool calls of the round whose processing order is varied
MaxRoundCalls == 3
\* fragments the model streams in a turn of capy1ChatHandler
MaxFragments == 3
MaxFollowupCalls == 2
\* prompts in the followUps setting
MaxFollowUps == 2

(***************************************************************************)
(* Values.                                                                 *)
(***************************************************************************)
\* tools registered by registerLean4Tools: what vscode.lm.tools holds
Registry == {"lean4-copilot-listModels", "lean4-copilot-listTools"}
\* tool names the model may ask for: one registered, one not
ToolNames == {"lean4-copilot-listTools", "leansearch"}
\* call identifiers the model may attach to a tool call; the model is free
\* to repeat one
CallIds == {"c1", "c2"}
\* values of the text parts of a response stream
TextValues == {"a", "b"}
\* request.command
Commands == {"none", "listTools", "listModels"}
\* the lean4.copilot.autoToolUse setting
AutoToolUseSettings == {"true", "false", "unset"}
\* number of Uri/Location references of the request that the prompt renders
RequestAnchors == {0, 1}

ToolNotFound == "Tool not found"
ErrorInvokingTool == "Error invoking tool"
ToolOutput == "tool output"
HandlerApology == "An unexpected error occurred while processing your request."
EmptyResponseWarning == "The chat model returned an empty response."
ToolsTable == "Available tools"
ModelsTable == "Available models"

VARIABLES
    request,                \* the ChatRequest of the turn
    autoToolUse,            \* the lean4.copilot.autoToolUse setting
    pc,                     \* position of the handler
    path,                   \* "none", "tools" (runTools) or "notools" (runNoTools)
    out,                    \* writes made to the ChatResponseStream, in order
    accumulatedToolResults, \* runTools: callId -> result
    toolCallRounds,         \* runTools: the rounds recorded so far
    toolCalls,              \* executeToolCallRound: tool-call parts collected
    responseStr,            \* executeToolCallRound: text parts collected
    callIdx,                \* position of the for loop over toolCalls
    messages,               \* the messages of the last rendered prompt
    result,                 \* the ChatResult returned by the handler
    sendLog,                \* history: one entry per sendRequest call: whether the
                            \* request and its stream went through, and the
                            \* number of invokeTool calls made when it ended
    invokeLog,              \* history: one entry per vscode.lm.invokeTool call
    notFoundLog,            \* history: one entry per 'Tool not found' result stored
    dispatches,             \* history: tool calls returned by each finished dispatch
    doneCount,              \* history: success results produced by the orchestrator
    callsLeft,              \* tool-call parts the environment may still stream
    textLeft,               \* text parts the environment may still stream
    composer,               \* "add" (addReferencesToPrompt) or "render" (PromptReferences)
    refs,                   \* the references of the request
    editor,                 \* the active editor and its selection
    refIdx,                 \* position of the loop over the references
    refMsgs,                \* messages produced for the references
    refPc,                  \* position of the reference composer
    refLog,                 \* history: references the loop has looked at
    thrown,                 \* the value the catch block of the handler caught
    inFlight,               \* external calls made and not yet settled
    cancelled,              \* the cancellation token has fired
    callbackErrors,         \* history: errors the cancellation callback threw
                            \* into the emitter that called it
    currentModel,           \* selectAppropriateModel: the model of the request
    gpt4oModels,            \* what selectChatModels finds for copilot / gpt-4o
    selected,               \* what selectAppropriateModel returned
    selPc,                  \* position of selectAppropriateModel
    tPc,                    \* concurrent turns: position of each runTools call
    tToolCalls,             \* ... its toolCalls
    tCallIdx,               \* ... the position of its for loop
    tResult,                \* ... the metadata it returned
    tCallsLeft,             \* ... tool-call parts its model may still stream
    roundsAt,               \* the toolCallRounds arrays, by where they live
    resultsAt,              \* the accumulatedToolResults objects, likewise
    tPushed,                \* history: the rounds each turn pushed
    tStored,                \* history: the results each turn stored
    fbSeen,                 \* history: the feedback kinds handleFeedback received
    fbNotes,                \* the notifications shown, in order
    fuSetting,              \* the lean4.copilot.followUps setting
    fuOut,                  \* history: what each generateFollowups call returned
    textParts,              \* history: values of the text parts of the current dispatch
    callParts,              \* history: the tool-call parts of the current dispatch
    outMark,                \* history: writes made when the current dispatch was sent
    partsLog,               \* history: the tool-call parts of each finished dispatch
    oCalls,                 \* order of processing: the calls of one round
    oPerm,                  \* ... a permutation of their positions
    oIdx,                   \* ... position of the loop that runs in requested order
    oCache,                 \* ... and its cache
    pIdx,                   \* ... position of the loop that runs in permuted order
    pCache,                 \* ... and its cache
    hTurn,                  \* history: the path of the later turn that rendered it
    hAs,                    \* ... what the prior response turn was rendered as
    hMessages,              \* ... the messages of the prior response turn
    hInvokes,               \* ... the invokeTool calls the rendering made
    hResult,                \* ... the prior turn's result as it was when rendering began
    cRev,                   \* capy1: the revision of capy1ChatHandler that runs the turn
    cCommand,               \* ... request.command
    cAnchors,               \* ... number of references of the request
    cPc,                    \* ... position of the handler
    cOut,                   \* ... parts written to the response stream
    cError,                 \* ... the error in flight, and where it was raised
    cModelFailed,           \* history: the model request of the turn failed
    cResult,                \* ... the value the handler returned
    cFragLeft               \* ... fragments the model may still stream

mainVars == <<request, autoToolUse, pc, path, out, accumulatedToolResults,
              toolCallRounds, toolCalls, responseStr, callIdx, messages, result,
              sendLog, invokeLog, notFoundLog, dispatches, doneCount,
              callsLeft, textLeft>>
refVars == <<composer, refs, editor, refIdx, refMsgs, refPc, refLog>>
hostVars == <<thrown, inFlight, cancelled, callbackErrors>>
selVars == <<currentModel, gpt4oModels, selected, selPc>>
turnVars == <<tPc, tToolCalls, tCallIdx, tResult, tCallsLeft, roundsAt, resultsAt,
              tPushed, tStored>>
uiVars == <<fbSeen, fbNotes, fuSetting, fuOut>>
streamVars == <<textParts, callParts, outMark, partsLog>>
ordVars == <<oCalls, oPerm, oIdx, oCache, pIdx, pCache>>
histVars == <<hTurn, hAs, hMessages, hInvokes, hResult>>
capyVars == <<cRev, cCommand, cAnchors, cPc, cOut, cError, cModelFailed, cResult, cFragLeft>>
vars == <<mainVars, refVars, hostVars, selVars, turnVars, uiVars, streamVars, ordVars, histVars, capyVars>>

(***************************************************************************)
(* Helpers.                                                                *)
(***************************************************************************)
EmptyResults == [id \in {} |-> ""]
NoToolCallsMetadata ==
    [present |-> FALSE, toolCallRounds |-> <<>>, toolCallResults |-> EmptyResults]
Pending ==
    [success |-> FALSE, error |-> "pending", command |-> "none",
     toolCallsMetadata |-> NoToolCallsMetadata]

Progress == [kind |-> "progress", value |-> "lean4Copilot is busy thinking..."]
Markdown(v) == [kind |-> "markdown", value |-> v]
Reference == [kind |-> "reference", value |-> "anchor"]

\* variant: the lookup finds a tool for every name
ToolFoundAlways(name) == TRUE

\* vscode.lm.tools.find(t => t.name === toolCall.name)
ToolFound(name) == name \in Registry

\* variant: the result is not stored
CachePutDropped(cache, id, v) == cache

\* accumulatedToolResults[callId] = value
CachePut(cache, id, v) ==
    [x \in (DOMAIN cache) \cup {id} |-> IF x = id THEN v ELSE cache[x]]

\* variant: the setting defaults to false
GetAutoToolUseDefaultOff(setting) == setting = "true"

\* config.get<boolean>('autoToolUse', true)
GetAutoToolUse(setting) == IF setting = "unset" THEN TRUE ELSE setting = "true"

\* variant: a single tool call does not start a round
HasToolCallsOffByOne(calls) == Len(calls) > 1

\* if (toolCalls.length)
HasToolCalls(calls) == Len(calls) > 0

\* the value listToolsCommand returns
ListToolsResult ==
    [success |-> TRUE, error |-> "none", command |-> "list",
     toolCallsMetadata |-> NoToolCallsMetadata]

\* variant: the result does not tag the command
ListModelsResultUntagged ==
    [success |-> TRUE, error |-> "none", command |-> "none",
     toolCallsMetadata |-> NoToolCallsMetadata]

\* the value listModelsCommand returns
ListModelsResult ==
    [success |-> TRUE, error |-> "none", command |-> "listModels",
     toolCallsMetadata |-> NoToolCallsMetadata]

\* the value the catch block of lean4CopilotChatHandler returns
FailureResult(msg) ==
    [success |-> FALSE, error |-> msg, command |-> "none",
     toolCallsMetadata |-> NoToolCallsMetadata]

\* variant: the rounds are left out of the returned metadata
ToolsSuccessNoRounds(rounds, results) ==
    [success |-> TRUE, error |-> "none", command |-> "none",
     toolCallsMetadata |->
        [present |-> TRUE, toolCallRounds |-> <<>>, toolCallResults |-> results]]

\* the value executeToolCallRound returns when the model asked for no tool
ToolsSuccess(rounds, results) ==
    [success |-> TRUE, error |-> "none", command |-> "none",
     toolCallsMetadata |->
        [present |-> TRUE, toolCallRounds |-> rounds, toolCallResults |-> results]]

\* the value runNoTools returns
NoToolsSuccess ==
    [success |-> TRUE, error |-> "none", command |-> "none",
     toolCallsMetadata |-> NoToolCallsMetadata]

\* no error has reached the catch block of the handler
NothingThrown == [isError |-> FALSE, message |-> "nothing"]

\* the Error a rejected sendRequest or a failing response stream raises
ModelError == [isError |-> TRUE, message |-> "model request failed"]

\* variant: the message property is read from whatever was thrown
CaughtMessageUnchecked(e) == e.message

\* error instanceof Error ? error.message : 'Unknown error'
CaughtMessage(e) == IF e.isError THEN e.message ELSE "Unknown error"

\* an external call of the turn: model.sendRequest or vscode.lm.invokeTool
RequestCall(k) == [kind |-> "sendRequest", round |-> k, idx |-> 0]
ToolCall(r, i) == [kind |-> "invokeTool", round |-> r, idx |-> i]

\* variant: a new text part is put in front of the text collected so far
ConcatInFront(str, v) == <<v>> \o str

\* responseStr += part.value: a string is the sequence of its fragments
Concat(str, v) == Append(str, v)

\* variant: a failed model request is sent again
OnModelErrorRetry == "compose"

\* where the handler goes when sendRequest or its stream throws: nothing in
\* runTools or runNoTools catches, so the catch block of the handler runs
OnModelError == "catch"

\* variant: the turn stops after one round of tool calls
AfterCallOneRound(i, n) == IF i < n THEN "invoke" ELSE "done"

\* where the for loop over toolCalls goes after call i of n
AfterCall(i, n) == IF i < n THEN "invoke" ELSE "compose"

\* variant: the for loop does not wait for the tool it invoked
AfterInvokeStartNoAwait(i, n) == AfterCall(i, n)

\* where the for loop is after it called invokeTool for call i of n:
\* await vscode.lm.invokeTool(...)
AfterInvokeStart(i, n) == "awaitTool"

\* variant: a throwing tool is not caught inside the loop
AfterInvokeErrorAborts(i, n) == "catch"

\* where the for loop goes after invokeTool threw for call i of n: the catch
\* inside the loop stores the error text and the loop goes on
AfterInvokeError(i, n) == AfterCall(i, n)

(***************************************************************************)
(* Prompt rendering (ToolUserPrompt, NoToolsUserPrompt, ToolCalls,         *)
(* ToolResultElement).                                                     *)
(***************************************************************************)
\* positions <<r, i>> of the calls of the rounds
CallPositions(rounds) ==
    {p \in (1..Len(rounds)) \X (1..MaxCalls + 1) : p[2] <= Len(rounds[p[1]].toolCalls)}

\* variant: the render invokes every registered tool, cached or not
RenderMissesAll(rounds, cache) ==
    {p \in CallPositions(rounds) : ToolFound(rounds[p[1]].toolCalls[p[2]].name)}

\* ToolResultElement.render invokes the tool itself when the tool exists and
\* no cached result was passed to it
RenderMisses(rounds, cache) ==
    {p \in CallPositions(rounds) :
        LET call == rounds[p[1]].toolCalls[p[2]]
        IN  ToolFound(call.name) /\ call.callId \notin DOMAIN cache}

\* variant: the message of a missing tool does not carry the call identifier
ToolResultElementNoId(call, cache, invokeThrows) ==
    IF ~ToolFound(call.name)
    THEN [role |-> "tool", callId |-> "none", content |-> ToolNotFound]
    ELSE IF call.callId \in DOMAIN cache
    THEN [role |-> "tool", callId |-> call.callId, content |-> cache[call.callId]]
    ELSE IF invokeThrows
    THEN [role |-> "tool", callId |-> call.callId, content |-> ErrorInvokingTool]
    ELSE [role |-> "tool", callId |-> call.callId, content |-> ToolOutput]

\* ToolResultElement.render: the tool message of one call
ToolResultElement(call, cache, invokeThrows) ==
    IF ~ToolFound(call.name)
    THEN [role |-> "tool", callId |-> call.callId, content |-> ToolNotFound]
    ELSE IF call.callId \in DOMAIN cache
    THEN [role |-> "tool", callId |-> call.callId, content |-> cache[call.callId]]
    ELSE IF invokeThrows
    THEN [role |-> "tool", callId |-> call.callId, content |-> ErrorInvokingTool]
    ELSE [role |-> "tool", callId |-> call.callId, content |-> ToolOutput]

\* ToolCalls.renderOneToolCallRound: the assistant message and one tool
\* message per call
RenderOneToolCallRound(rounds, r, cache, throwing) ==
    <<[role |-> "assistant", callId |-> "none",
       content |-> [response |-> rounds[r].response,
                    toolCalls |-> [i \in 1..Len(rounds[r].toolCalls) |->
                                      rounds[r].toolCalls[i].callId]]]>>
    \o [i \in 1..Len(rounds[r].toolCalls) |->
          ToolResultElement(rounds[r].toolCalls[i], cache, <<r, i>> \in throwing)]

RECURSIVE RenderRounds(_, _, _, _)
RenderRounds(rounds, r, cache, throwing) ==
    IF r > Len(rounds) THEN <<>>
    ELSE RenderOneToolCallRound(rounds, r, cache, throwing)
         \o RenderRounds(rounds, r + 1, cache, throwing)

ToolResultsNote == [role |-> "user", callId |-> "none", content |-> "Above is the result of calling one or more tools."]

\* variant: the rounds are rendered without the closing user message
RenderToolCallsBare(rounds, cache, throwing) ==
    IF Len(rounds) = 0 THEN <<>>
    ELSE RenderRounds(rounds, 1, cache, throwing)

\* ToolCalls.render
RenderToolCalls(rounds, cache, throwing) ==
    IF Len(rounds) = 0 THEN <<>>
    ELSE RenderRounds(rounds, 1, cache, throwing) \o <<ToolResultsNote>>

UserMessage(text) == [role |-> "user", callId |-> "none", content |-> text]

\* PromptReferences.render of the request's references: one user message
\* when the request carries any
RenderRequestReferences(anchors) ==
    IF anchors = 0 THEN <<>> ELSE <<UserMessage("references")>>

\* ToolUserPrompt.render
ToolUserPrompt(req, rounds, cache, throwing) ==
    <<UserMessage("systemPrompt")>> \o RenderRequestReferences(req.anchors)
    \o <<UserMessage("prompt")>> \o RenderToolCalls(rounds, cache, throwing)

\* NoToolsUserPrompt.render
NoToolsUserPrompt(req) ==
    <<UserMessage("systemPrompt")>> \o RenderRequestReferences(req.anchors)
    \o <<UserMessage("prompt")>>

\* variant: the references of a rendered prompt are not written
ReferenceWritesNone(n) == <<>>

\* result.references.forEach(ref => stream.reference(ref.anchor))
RECURSIVE ReferenceWrites(_)
ReferenceWrites(n) == IF n = 0 THEN <<>> ELSE <<Reference>> \o ReferenceWrites(n - 1)

\* the invokeTool calls a render makes, in the order of the rounds
RECURSIVE RenderInvokes(_, _, _, _)
RenderInvokes(rounds, r, i, cache) ==
    IF r > Len(rounds) THEN <<>>
    ELSE IF i > Len(rounds[r].toolCalls) THEN RenderInvokes(rounds, r + 1, 1, cache)
    ELSE (IF <<r, i>> \in RenderMisses(rounds, cache)
          THEN <<[callId |-> rounds[r].toolCalls[i].callId,
                  name |-> rounds[r].toolCalls[i].name,
                  round |-> Len(rounds), idx |-> i, via |-> "render",
                  outcome |-> "render"]>>
          ELSE <<>>)
         \o RenderInvokes(rounds, r, i + 1, cache)


(***************************************************************************)
(* The chat handler and the orchestrator.                                  *)
(***************************************************************************)
HostIdle ==
    /\ thrown = NothingThrown
    /\ inFlight = <<>>
    /\ cancelled = FALSE
    /\ callbackErrors = 0

\* the chat turns that run at the same time
Turns == {1, 2}

SelIdle ==
    /\ currentModel = [vendor |-> "none", family |-> <<>>, id |-> "none"]
    /\ gpt4oModels = <<>>
    /\ selected = [vendor |-> "none", family |-> <<>>, id |-> "none"]
    /\ selPc = "idle"

TurnsIdle ==
    /\ tPc = [t \in Turns |-> "idle"]
    /\ tToolCalls = [t \in Turns |-> <<>>]
    /\ tCallIdx = [t \in Turns |-> 1]
    /\ tResult = [t \in Turns |-> NoToolCallsMetadata]
    /\ tCallsLeft = [t \in Turns |-> 0]
    /\ roundsAt = [t \in Turns |-> <<>>]
    /\ resultsAt = [t \in Turns |-> EmptyResults]
    /\ tPushed = [t \in Turns |-> <<>>]
    /\ tStored = [t \in Turns |-> EmptyResults]

UiIdle ==
    /\ fbSeen = <<>>
    /\ fbNotes = <<>>
    /\ fuSetting = [set |-> FALSE, prompts |-> <<>>]
    /\ fuOut = <<>>

StreamIdle ==
    /\ textParts = <<>>
    /\ callParts = <<>>
    /\ outMark = 0
    /\ partsLog = <<>>

OrdIdle ==
    /\ oCalls = <<>>
    /\ oPerm = <<>>
    /\ oIdx = 1
    /\ oCache = EmptyResults
    /\ pIdx = 1
    /\ pCache = EmptyResults

HistIdle ==
    /\ hTurn = "none"
    /\ hAs = "none"
    /\ hMessages = <<>>
    /\ hInvokes = <<>>
    /\ hResult = Pending

CapyIdle ==
    /\ cRev = "none"
    /\ cCommand = "none"
    /\ cAnchors = 0
    /\ cPc = "idle"
    /\ cOut = <<>>
    /\ cError = [isError |-> FALSE, message |-> "nothing"]
    /\ cModelFailed = FALSE
    /\ cResult = [returned |-> FALSE, success |-> FALSE, error |-> "none"]
    /\ cFragLeft = 0

RefsIdle ==
    /\ composer = "none"
    /\ refs = <<>>
    /\ editor = [active |-> FALSE, selection |-> ""]
    /\ refIdx = 1
    /\ refMsgs = <<>>
    /\ refPc = "idle"
    /\ refLog = <<>>

Init ==
    /\ request \in [command : Commands, anchors : RequestAnchors]
    /\ autoToolUse \in AutoToolUseSettings
    /\ pc = "start"
    /\ path = "none"
    /\ out = <<>>
    /\ accumulatedToolResults = EmptyResults
    /\ toolCallRounds = <<>>
    /\ toolCalls = <<>>
    /\ responseStr = <<>>
    /\ callIdx = 1
    /\ messages = <<>>
    /\ result = Pending
    /\ sendLog = <<>>
    /\ invokeLog = <<>>
    /\ notFoundLog = <<>>
    /\ dispatches = <<>>
    /\ doneCount = 0
    /\ callsLeft = MaxCalls
    /\ textLeft = MaxText
    /\ RefsIdle
    /\ HostIdle
    /\ SelIdle
    /\ TurnsIdle
    /\ UiIdle
    /\ StreamIdle
    /\ OrdIdle
    /\ HistIdle
    /\ CapyIdle

\* lean4CopilotChatHandler up to the switch: register the cancellation
\* callback, write the progress indicator
HandlerStart ==
    /\ pc = "start"
    /\ out' = Append(out, Progress)
    /\ pc' = "command"
    /\ UNCHANGED <<request, autoToolUse, path, accumulatedToolResults, toolCallRounds,
                   toolCalls, responseStr, callIdx, messages, result, sendLog,
                   invokeLog, notFoundLog, dispatches, doneCount, callsLeft, textLeft>>
    /\ UNCHANGED hostVars
    /\ UNCHANGED <<refVars, selVars, turnVars, uiVars, streamVars, ordVars, histVars, capyVars>>

\* case 'listTools': return await listToolsCommand(stream)
ListToolsCommand ==
    /\ pc = "command"
    /\ request.command = "listTools"
    /\ out' = Append(out, Markdown(ToolsTable))
    /\ result' = ListToolsResult
    /\ pc' = "done"
    /\ UNCHANGED <<request, autoToolUse, path, accumulatedToolResults, toolCallRounds,
                   toolCalls, responseStr, callIdx, messages, sendLog,
                   invokeLog, notFoundLog, dispatches, doneCount, callsLeft, textLeft>>
    /\ UNCHANGED hostVars
    /\ UNCHANGED <<refVars, selVars, turnVars, uiVars, streamVars, ordVars, histVars, capyVars>>

\* case 'listModels': return await listModelsCommand(requestId, stream)
ListModelsCommand ==
    /\ pc = "command"
    /\ request.command = "listModels"
    /\ out' = Append(out, Markdown(ModelsTable))
    /\ result' = ListModelsResult
    /\ pc' = "done"
    /\ UNCHANGED <<request, autoToolUse, path, accumulatedToolResults, toolCallRounds,
                   toolCalls, responseStr, callIdx, messages, sendLog,
                   invokeLog, notFoundLog, dispatches, doneCount, callsLeft, textLeft>>
    /\ UNCHANGED hostVars
    /\ UNCHANGED <<refVars, selVars, turnVars, uiVars, streamVars, ordVars, histVars, capyVars>>

\* no direct command: selectAppropriateModel, then handleChatRequest reads
\* the autoToolUse setting and enters runTools or runNoTools
HandleChatRequest ==
    /\ pc = "command"
    /\ request.command \notin {"listTools", "listModels"}
    /\ path' = IF GetAutoToolUse(autoToolUse) THEN "tools" ELSE "notools"
    /\ pc' = "compose"
    /\ UNCHANGED <<request, autoToolUse, out, accumulatedToolResults, toolCallRounds,
                   toolCalls, responseStr, callIdx, messages, result, sendLog,
                   invokeLog, notFoundLog, dispatches, doneCount, callsLeft, textLeft>>
    /\ UNCHANGED hostVars
    /\ UNCHANGED <<refVars, selVars, turnVars, uiVars, streamVars, ordVars, histVars, capyVars>>

\* executeToolCallRound / runNoTools: renderPrompt, then the references of
\* the rendered prompt are written to the stream
Compose ==
    /\ pc = "compose"
    /\ IF path = "tools"
       THEN \E throwing \in SUBSET RenderMisses(toolCallRounds, accumulatedToolResults) :
              /\ messages' = ToolUserPrompt(request, toolCallRounds,
                                            accumulatedToolResults, throwing)
              /\ invokeLog' = invokeLog \o RenderInvokes(toolCallRounds, 1, 1,
                                                         accumulatedToolResults)
       ELSE /\ messages' = NoToolsUserPrompt(request)
            /\ invokeLog' = invokeLog
    /\ out' = out \o ReferenceWrites(request.anchors)
    /\ pc' = "send"
    /\ UNCHANGED <<request, autoToolUse, path, accumulatedToolResults, toolCallRounds,
                   toolCalls, responseStr, callIdx, result, sendLog,
                   notFoundLog, dispatches, doneCount, callsLeft, textLeft>>
    /\ UNCHANGED hostVars
    /\ UNCHANGED <<refVars, selVars, turnVars, uiVars, streamVars, ordVars, histVars, capyVars>>

\* const response = await model.sendRequest(messages, options, token)
SendRequest ==
    /\ pc = "send"
    /\ Len(sendLog) < MaxDispatch
    /\ sendLog' = Append(sendLog, [ok |-> TRUE, invokes |-> Len(invokeLog)])
    /\ toolCalls' = <<>>
    /\ responseStr' = <<>>
    /\ pc' = "stream"
    /\ UNCHANGED <<request, autoToolUse, path, out, accumulatedToolResults,
                   toolCallRounds, callIdx, messages, result,
                   invokeLog, notFoundLog, dispatches, doneCount, callsLeft, textLeft>>
    /\ inFlight' = Append(inFlight, RequestCall(Len(sendLog) + 1))
    /\ UNCHANGED <<thrown, cancelled, callbackErrors>>
    /\ textParts' = <<>>
    /\ callParts' = <<>>
    /\ outMark' = Len(out)
    /\ UNCHANGED partsLog
    /\ UNCHANGED <<refVars, selVars, turnVars, uiVars, ordVars, histVars, capyVars>>

\* sendRequest rejects (network, authentication, quota)
SendRequestFails ==
    /\ pc = "send"
    /\ Len(sendLog) < MaxDispatch
    /\ sendLog' = Append(sendLog, [ok |-> FALSE, invokes |-> Len(invokeLog)])
    /\ pc' = OnModelError
    /\ UNCHANGED <<request, autoToolUse, path, out, accumulatedToolResults,
                   toolCallRounds, toolCalls, responseStr, callIdx, messages, result,
                   invokeLog, notFoundLog, dispatches, doneCount, callsLeft, textLeft>>
    /\ thrown' = ModelError
    /\ UNCHANGED <<inFlight, cancelled, callbackErrors>>
    /\ UNCHANGED <<refVars, selVars, turnVars, uiVars, streamVars, ordVars, histVars, capyVars>>

\* for await (part of response.stream): a LanguageModelTextPart
StreamTextPart ==
    /\ pc = "stream"
    /\ textLeft > 0
    /\ \E v \in TextValues :
          /\ out' = Append(out, Markdown(v))
          /\ responseStr' = Concat(responseStr, v)
          /\ textParts' = Append(textParts, v)
    /\ textLeft' = textLeft - 1
    /\ UNCHANGED <<request, autoToolUse, pc, path, accumulatedToolResults,
                   toolCallRounds, toolCalls, callIdx, messages, result, sendLog,
                   invokeLog, notFoundLog, dispatches, doneCount, callsLeft>>
    /\ UNCHANGED hostVars
    /\ UNCHANGED <<callParts, outMark, partsLog>>
    /\ UNCHANGED <<refVars, selVars, turnVars, uiVars, ordVars, histVars, capyVars>>

\* for await (part of response.stream): a LanguageModelToolCallPart;
\* runTools collects it, runNoTools has no branch for it
StreamToolCallPart ==
    /\ pc = "stream"
    /\ callsLeft > 0
    /\ \E n \in ToolNames, id \in CallIds :
          /\ toolCalls' = IF path = "tools"
                          THEN Append(toolCalls, [name |-> n, callId |-> id])
                          ELSE toolCalls
          /\ callParts' = Append(callParts, [name |-> n, callId |-> id])
    /\ callsLeft' = callsLeft - 1
    /\ UNCHANGED <<request, autoToolUse, pc, path, out, accumulatedToolResults,
                   toolCallRounds, responseStr, callIdx, messages, result, sendLog,
                   invokeLog, notFoundLog, dispatches, doneCount, textLeft>>
    /\ UNCHANGED hostVars
    /\ UNCHANGED <<textParts, outMark, partsLog>>
    /\ UNCHANGED <<refVars, selVars, turnVars, uiVars, ordVars, histVars, capyVars>>

\* the response stream throws while it is iterated
StreamFails ==
    /\ pc = "stream"
    /\ sendLog' = [sendLog EXCEPT ![Len(sendLog)] =
                      [ok |-> FALSE, invokes |-> Len(invokeLog)]]
    /\ pc' = OnModelError
    /\ UNCHANGED <<request, autoToolUse, path, out, accumulatedToolResults,
                   toolCallRounds, toolCalls, responseStr, callIdx, messages, result,
                   invokeLog, notFoundLog, dispatches, doneCount,
                   callsLeft, textLeft>>
    /\ thrown' = ModelError
    /\ inFlight' = <<>>
    /\ UNCHANGED <<cancelled, callbackErrors>>
    /\ UNCHANGED <<refVars, selVars, turnVars, uiVars, streamVars, ordVars, histVars, capyVars>>

\* runTools: the stream ended with tool calls: the round is pushed onto
\* toolCallRounds and the for loop over its calls starts
StreamEndToolCalls ==
    /\ pc = "stream"
    /\ path = "tools"
    /\ HasToolCalls(toolCalls)
    /\ toolCallRounds' = Append(toolCallRounds,
                                [response |-> responseStr, toolCalls |-> toolCalls])
    /\ dispatches' = Append(dispatches, Len(toolCalls))
    /\ callIdx' = 1
    /\ pc' = "invoke"
    /\ UNCHANGED <<request, autoToolUse, path, out, accumulatedToolResults,
                   toolCalls, responseStr, messages, result, sendLog,
                   invokeLog, notFoundLog, doneCount, callsLeft, textLeft>>
    /\ inFlight' = <<>>
    /\ UNCHANGED <<thrown, cancelled, callbackErrors>>
    /\ partsLog' = Append(partsLog, callParts)
    /\ UNCHANGED <<textParts, callParts, outMark>>
    /\ UNCHANGED <<refVars, selVars, turnVars, uiVars, ordVars, histVars, capyVars>>

\* runTools: the stream ended without tool calls: the turn is done
StreamEndDone ==
    /\ pc = "stream"
    /\ path = "tools"
    /\ ~HasToolCalls(toolCalls)
    /\ dispatches' = Append(dispatches, Len(toolCalls))
    /\ result' = ToolsSuccess(toolCallRounds, accumulatedToolResults)
    /\ doneCount' = doneCount + 1
    /\ pc' = "done"
    /\ UNCHANGED <<request, autoToolUse, path, out, accumulatedToolResults,
                   toolCallRounds, toolCalls, responseStr, callIdx, messages, sendLog,
                   invokeLog, notFoundLog, callsLeft, textLeft>>
    /\ inFlight' = <<>>
    /\ UNCHANGED <<thrown, cancelled, callbackErrors>>
    /\ partsLog' = Append(partsLog, callParts)
    /\ UNCHANGED <<textParts, callParts, outMark>>
    /\ UNCHANGED <<refVars, selVars, turnVars, uiVars, ordVars, histVars, capyVars>>

\* runNoTools: the stream ended
StreamEndNoTools ==
    /\ pc = "stream"
    /\ path = "notools"
    /\ dispatches' = Append(dispatches, Len(toolCalls))
    /\ result' = NoToolsSuccess
    /\ doneCount' = doneCount + 1
    /\ pc' = "done"
    /\ UNCHANGED <<request, autoToolUse, path, out, accumulatedToolResults,
                   toolCallRounds, toolCalls, responseStr, callIdx, messages, sendLog,
                   invokeLog, notFoundLog, callsLeft, textLeft>>
    /\ inFlight' = <<>>
    /\ UNCHANGED <<thrown, cancelled, callbackErrors>>
    /\ partsLog' = Append(partsLog, callParts)
    /\ UNCHANGED <<textParts, callParts, outMark>>
    /\ UNCHANGED <<refVars, selVars, turnVars, uiVars, ordVars, histVars, capyVars>>

\* for (const toolCall of toolCalls): the tool is not in vscode.lm.tools
InvokeToolNotFound ==
    /\ pc = "invoke"
    /\ LET call == toolCalls[callIdx]
       IN  /\ ~ToolFound(call.name)
           /\ accumulatedToolResults' =
                 CachePut(accumulatedToolResults, call.callId, ToolNotFound)
           /\ notFoundLog' = Append(notFoundLog,
                 [callId |-> call.callId, name |-> call.name,
                  round |-> Len(toolCallRounds), idx |-> callIdx])
    /\ pc' = AfterCall(callIdx, Len(toolCalls))
    /\ callIdx' = callIdx + 1
    /\ UNCHANGED <<request, autoToolUse, path, out, toolCallRounds, toolCalls,
                   responseStr, messages, result, sendLog, invokeLog, dispatches,
                   doneCount, callsLeft, textLeft>>
    /\ UNCHANGED hostVars
    /\ UNCHANGED <<refVars, selVars, turnVars, uiVars, streamVars, ordVars, histVars, capyVars>>

\* for (const toolCall of toolCalls): the tool is found and
\* vscode.lm.invokeTool is called; the loop awaits it
InvokeToolStart ==
    /\ pc = "invoke"
    /\ LET call == toolCalls[callIdx]
       IN  /\ ToolFound(call.name)
           /\ invokeLog' = Append(invokeLog,
                 [callId |-> call.callId, name |-> call.name,
                  round |-> Len(toolCallRounds), idx |-> callIdx, via |-> "loop",
                  outcome |-> "pending"])
    /\ inFlight' = Append(inFlight, ToolCall(Len(toolCallRounds), callIdx))
    /\ pc' = AfterInvokeStart(callIdx, Len(toolCalls))
    /\ UNCHANGED <<request, autoToolUse, path, out, accumulatedToolResults,
                   toolCallRounds, toolCalls, responseStr, callIdx, messages, result,
                   sendLog, notFoundLog, dispatches, doneCount, callsLeft, textLeft>>
    /\ UNCHANGED <<thrown, cancelled, callbackErrors>>
    /\ UNCHANGED <<refVars, selVars, turnVars, uiVars, streamVars, ordVars, histVars, capyVars>>

\* the awaited invokeTool returns a result, which is stored
InvokeToolReturns ==
    /\ pc = "awaitTool"
    /\ LET call == toolCalls[callIdx]
       IN  /\ invokeLog' = [invokeLog EXCEPT ![Len(invokeLog)].outcome = "returned"]
           /\ accumulatedToolResults' =
                 CachePut(accumulatedToolResults, call.callId, ToolOutput)
    /\ inFlight' = <<>>
    /\ pc' = AfterCall(callIdx, Len(toolCalls))
    /\ callIdx' = callIdx + 1
    /\ UNCHANGED <<request, autoToolUse, path, out, toolCallRounds, toolCalls,
                   responseStr, messages, result, sendLog, notFoundLog, dispatches,
                   doneCount, callsLeft, textLeft>>
    /\ UNCHANGED <<thrown, cancelled, callbackErrors>>
    /\ UNCHANGED <<refVars, selVars, turnVars, uiVars, streamVars, ordVars, histVars, capyVars>>

\* the awaited invokeTool throws, the catch inside the loop stores the
\* error text
InvokeToolThrows ==
    /\ pc = "awaitTool"
    /\ LET call == toolCalls[callIdx]
       IN  /\ invokeLog' = [invokeLog EXCEPT ![Len(invokeLog)].outcome = "threw"]
           /\ accumulatedToolResults' =
                 CachePut(accumulatedToolResults, call.callId, ErrorInvokingTool)
    /\ inFlight' = <<>>
    /\ pc' = AfterInvokeError(callIdx, Len(toolCalls))
    /\ callIdx' = callIdx + 1
    /\ UNCHANGED <<request, autoToolUse, path, out, toolCallRounds, toolCalls,
                   responseStr, messages, result, sendLog, notFoundLog, dispatches,
                   doneCount, callsLeft, textLeft>>
    /\ UNCHANGED <<thrown, cancelled, callbackErrors>>
    /\ UNCHANGED <<refVars, selVars, turnVars, uiVars, streamVars, ordVars, histVars, capyVars>>

\* catch (error) of lean4CopilotChatHandler
HandlerCatch ==
    /\ pc = "catch"
    /\ out' = Append(out, Markdown(HandlerApology))
    /\ result' = FailureResult(CaughtMessage(thrown))
    /\ pc' = "done"
    /\ UNCHANGED <<request, autoToolUse, path, accumulatedToolResults, toolCallRounds,
                   toolCalls, responseStr, callIdx, messages, sendLog,
                   invokeLog, notFoundLog, dispatches, doneCount, callsLeft, textLeft>>
    /\ UNCHANGED hostVars
    /\ UNCHANGED <<refVars, selVars, turnVars, uiVars, streamVars, ordVars, histVars, capyVars>>

Next ==
    \/ HandlerStart
    \/ ListToolsCommand
    \/ ListModelsCommand
    \/ HandleChatRequest
    \/ Compose
    \/ SendRequest
    \/ SendRequestFails
    \/ StreamTextPart
    \/ StreamToolCallPart
    \/ StreamFails
    \/ StreamEndToolCalls
    \/ StreamEndDone
    \/ StreamEndNoTools
    \/ InvokeToolNotFound
    \/ InvokeToolStart
    \/ InvokeToolReturns
    \/ InvokeToolThrows
    \/ HandlerCatch

Spec == Init /\ [][Next]_vars

(***************************************************************************)
(* The finished turn as history of a later turn.                           *)
(***************************************************************************)
\* isTsxToolUserMetadata(metadata)
IsTsxToolUserMetadata(res) == res.toolCallsMetadata.present

\* variant: every response turn counts as one with rounds
HasRoundsAlways(metadata) == TRUE

\* metadata.toolCallsMetadata.toolCallRounds.length > 0
HasRounds(metadata) == Len(metadata.toolCallRounds) > 0

\* chatResponseToString: the markdown and anchor parts of the response
ChatResponseToString(parts) ==
    LET Kept(p) == p.kind \in {"markdown", "reference"}
        kept == SelectSeq(parts, Kept)
    IN  [i \in 1..Len(kept) |-> kept[i].value]

\* History.render of the response turn, by a later turn on either path
RenderHistory(later, throws) ==
    /\ pc = "done"
    /\ hTurn = "none"
    /\ hTurn' = later
    /\ hResult' = result
    /\ LET metadata == result.toolCallsMetadata
       IN  IF IsTsxToolUserMetadata(result) /\ HasRounds(metadata)
           THEN /\ hAs' = "toolCalls"
                /\ hMessages' =
                      RenderToolCalls(metadata.toolCallRounds, metadata.toolCallResults,
                                      IF throws THEN CallPositions(metadata.toolCallRounds)
                                      ELSE {})
                /\ hInvokes' =
                      RenderInvokes(metadata.toolCallRounds, 1, 1, metadata.toolCallResults)
           ELSE /\ hAs' = "assistant"
                /\ hMessages' = <<[role |-> "assistant", callId |-> "none",
                                   content |-> ChatResponseToString(out)]>>
                /\ hInvokes' = <<>>
    /\ UNCHANGED <<mainVars, refVars, hostVars, selVars, turnVars, uiVars, streamVars, ordVars, capyVars>>

NextHistory ==
    \/ Next
    \/ \E later \in {"tools", "notools"}, throws \in BOOLEAN : RenderHistory(later, throws)

SpecHistory == Init /\ [][NextHistory]_vars

(***************************************************************************)
(* The handler under a host whose other calls may throw and whose          *)
(* cancellation token may fire.                                            *)
(***************************************************************************)
\* what a host call may throw: an Error, or a value that is not an Error
HostErrors ==
    { [isError |-> TRUE, message |-> "host call failed"],
      [isError |-> FALSE, message |-> "undefined"] }

\* a statement inside the try block of the handler throws e: the rest of the
\* block is skipped and the catch block runs
ThrowInTry(e) ==
    /\ thrown' = e
    /\ pc' = "catch"
    /\ UNCHANGED <<request, autoToolUse, path, out, accumulatedToolResults,
                   toolCallRounds, toolCalls, responseStr, callIdx, messages, result,
                   sendLog, invokeLog, notFoundLog, dispatches, doneCount,
                   callsLeft, textLeft>>
    /\ UNCHANGED <<inFlight, cancelled, callbackErrors>>
    /\ UNCHANGED <<refVars, selVars, turnVars, uiVars, streamVars, ordVars, histVars, capyVars>>

\* token.onCancellationRequested(...) throws while the callback is registered
RegistrationThrows ==
    /\ pc = "start"
    /\ \E e \in HostErrors : ThrowInTry(e)

\* listToolsCommand or listModelsCommand throws (building the table,
\* selectChatModels)
DirectCommandThrows ==
    /\ pc = "command"
    /\ request.command \in {"listTools", "listModels"}
    /\ \E e \in HostErrors : ThrowInTry(e)

\* selectAppropriateModel throws (selectChatModels rejects)
SelectModelThrows ==
    /\ pc = "command"
    /\ request.command \notin {"listTools", "listModels"}
    /\ \E e \in HostErrors : ThrowInTry(e)

\* renderPrompt rejects
RenderPromptThrows ==
    /\ pc = "compose"
    /\ \E e \in HostErrors : ThrowInTry(e)

\* the cancellation token fires while the handler is suspended at an await
\* (listing or selecting models, rendering, the model request and its
\* stream, a tool invocation): the emitter calls the registered callback,
\* which logs and throws Error('Request cancelled'). The callback runs on
\* the emitter's stack, outside the try block of the handler, so the error
\* goes to the emitter and the handler stays where it is
CancellationRequested ==
    /\ pc \in {"command", "compose", "stream", "awaitTool"}
    /\ pc = "command" => request.command # "listTools"
    /\ ~cancelled
    /\ cancelled' = TRUE
    /\ callbackErrors' = callbackErrors + 1
    /\ UNCHANGED mainVars
    /\ UNCHANGED <<thrown, inFlight>>
    /\ UNCHANGED <<refVars, selVars, turnVars, uiVars, streamVars, ordVars, histVars, capyVars>>

NextHost ==
    \/ Next
    \/ RegistrationThrows
    \/ DirectCommandThrows
    \/ SelectModelThrows
    \/ RenderPromptThrows
    \/ CancellationRequested

SpecHost == Init /\ [][NextHost]_vars


(***************************************************************************)
(* The reference composers: addReferencesToPrompt (references.ts) and the  *)
(* PromptReferences / PromptReferenceElement prompt elements.              *)
(***************************************************************************)
\* the references a request may carry: id, the kind of its value, and whether
\* the file or range behind the value can be read
ReferenceValues ==
    { [id |-> "copilot.selection", value |-> "location", readable |-> TRUE],
      [id |-> "copilot.selection", value |-> "location", readable |-> FALSE],
      [id |-> "vscode.file", value |-> "uri", readable |-> TRUE],
      [id |-> "vscode.file", value |-> "uri", readable |-> FALSE],
      [id |-> "", value |-> "string", readable |-> TRUE],
      [id |-> "vscode.symbol", value |-> "other", readable |-> TRUE] }

\* vscode.window.activeTextEditor and the text of its selection
EditorStates ==
    { [active |-> FALSE, selection |-> ""],
      [active |-> TRUE, selection |-> ""],
      [active |-> TRUE, selection |-> "code"] }

RefLists == UNION {[1..n -> ReferenceValues] : n \in 0..MaxRefs}

\* getCurrentSelectionText(): null without an editor
GetCurrentSelectionText(ed) == IF ed.active THEN ed.selection ELSE "null"

\* getCurrentSelectionLocation(): null without an editor
GetCurrentSelectionLocation(ed) == IF ed.active THEN "location" ELSE "null"

\* if (selectionText && location): null and the empty string are falsy
SelectionAvailable(ed) ==
    /\ GetCurrentSelectionText(ed) \notin {"null", ""}
    /\ GetCurrentSelectionLocation(ed) # "null"

\* where addReferencesToPrompt goes after messages.push threw for reference
\* i of n: the catch returns from the function
AfterAddFailure(i, n) == "done"

\* where the loops over the references go after reference i of n
AfterReference(i, n) == IF i < n THEN "loop" ELSE "done"

MainIdle ==
    /\ request = [command |-> "none", anchors |-> 0]
    /\ autoToolUse = "unset"
    /\ pc = "idle"
    /\ path = "none"
    /\ out = <<>>
    /\ accumulatedToolResults = EmptyResults
    /\ toolCallRounds = <<>>
    /\ toolCalls = <<>>
    /\ responseStr = <<>>
    /\ callIdx = 1
    /\ messages = <<>>
    /\ result = Pending
    /\ sendLog = <<>>
    /\ invokeLog = <<>>
    /\ notFoundLog = <<>>
    /\ dispatches = <<>>
    /\ doneCount = 0
    /\ callsLeft = MaxCalls
    /\ textLeft = MaxText

InitRefs ==
    /\ MainIdle
    /\ HostIdle
    /\ SelIdle
    /\ TurnsIdle
    /\ refs \in RefLists
    /\ editor \in EditorStates
    /\ refIdx = 1
    /\ refMsgs = <<>>
    /\ composer \in {"add", "render"}
    /\ refPc = "start"
    /\ refLog = <<>>
    /\ UiIdle
    /\ StreamIdle
    /\ OrdIdle
    /\ HistIdle
    /\ CapyIdle

\* one step of a loop over the references: what reference refIdx adds to the
\* messages, what is noted about it, and where the loop goes
RefStep(added, note, next) ==
    /\ refMsgs' = refMsgs \o added
    /\ refLog' = Append(refLog, note)
    /\ refIdx' = refIdx + 1
    /\ refPc' = next
    /\ UNCHANGED <<composer, refs, editor>>
    /\ UNCHANGED <<mainVars, hostVars, selVars, turnVars, uiVars, streamVars, ordVars, histVars, capyVars>>

\* addReferencesToPrompt: request.references is empty
AddNoReferences ==
    /\ composer = "add"
    /\ refPc = "start"
    /\ Len(refs) = 0
    /\ refPc' = "done"
    /\ UNCHANGED <<composer, refs, editor, refIdx, refMsgs, refLog>>
    /\ UNCHANGED <<mainVars, hostVars, selVars, turnVars, uiVars, streamVars, ordVars, histVars, capyVars>>

\* addReferencesToPrompt: the for loop is entered
AddEnterLoop ==
    /\ composer = "add"
    /\ refPc = "start"
    /\ Len(refs) > 0
    /\ refPc' = "addLoop"
    /\ UNCHANGED <<composer, refs, editor, refIdx, refMsgs, refLog>>
    /\ UNCHANGED <<mainVars, hostVars, selVars, turnVars, uiVars, streamVars, ordVars, histVars, capyVars>>

AddNext(i, n) == IF AfterReference(i, n) = "loop" THEN "addLoop" ELSE "done"

\* if (!reference?.id) continue
AddInvalidReference ==
    /\ refPc = "addLoop"
    /\ refs[refIdx].id = ""
    /\ RefStep(<<>>, "invalid", AddNext(refIdx, Len(refs)))

\* a reference whose id is not 'copilot.selection' is passed over
AddOtherReference ==
    /\ refPc = "addLoop"
    /\ refs[refIdx].id \notin {"", "copilot.selection"}
    /\ RefStep(<<>>, "other", AddNext(refIdx, Len(refs)))

\* 'copilot.selection' without an editor or with an empty selection
AddSelectionUnavailable ==
    /\ refPc = "addLoop"
    /\ refs[refIdx].id = "copilot.selection"
    /\ ~SelectionAvailable(editor)
    /\ RefStep(<<>>, "unavailable", AddNext(refIdx, Len(refs)))

\* 'copilot.selection' with a selection: messages.push(...)
AddSelectionPushed ==
    /\ refPc = "addLoop"
    /\ refs[refIdx].id = "copilot.selection"
    /\ SelectionAvailable(editor)
    /\ RefStep(<<[from |-> refIdx, content |-> "Selected code"]>>, "added",
               AddNext(refIdx, Len(refs)))

\* 'copilot.selection' with a selection: building or pushing the message
\* throws, the inner catch returns
AddSelectionPushThrows ==
    /\ refPc = "addLoop"
    /\ refs[refIdx].id = "copilot.selection"
    /\ SelectionAvailable(editor)
    /\ RefStep(<<>>, "addFailed", AfterAddFailure(refIdx, Len(refs)))

\* PromptReferences.render: no references, nothing is rendered
RenderNoReferences ==
    /\ composer = "render"
    /\ refPc = "start"
    /\ Len(refs) = 0
    /\ refPc' = "done"
    /\ UNCHANGED <<composer, refs, editor, refIdx, refMsgs, refLog>>
    /\ UNCHANGED <<mainVars, hostVars, selVars, turnVars, uiVars, streamVars, ordVars, histVars, capyVars>>

\* PromptReferences.render: one PromptReferenceElement per reference
RenderEnterMap ==
    /\ composer = "render"
    /\ refPc = "start"
    /\ Len(refs) > 0
    /\ refPc' = "renderLoop"
    /\ UNCHANGED <<composer, refs, editor, refIdx, refMsgs, refLog>>
    /\ UNCHANGED <<mainVars, hostVars, selVars, turnVars, uiVars, streamVars, ordVars, histVars, capyVars>>

RenderNext(i, n) == IF AfterReference(i, n) = "loop" THEN "renderLoop" ELSE "done"

\* PromptReferenceElement.render: a Uri whose file is read
RenderUri ==
    /\ refPc = "renderLoop"
    /\ refs[refIdx].value = "uri"
    /\ refs[refIdx].readable
    /\ RefStep(<<[from |-> refIdx, content |-> "file contents"]>>, "added",
               RenderNext(refIdx, Len(refs)))

\* PromptReferenceElement.render: readFile throws
RenderUriFails ==
    /\ refPc = "renderLoop"
    /\ refs[refIdx].value = "uri"
    /\ ~refs[refIdx].readable
    /\ RefStep(<<[from |-> refIdx, content |-> "Error reading file"]>>, "unreadable",
               RenderNext(refIdx, Len(refs)))

\* PromptReferenceElement.render: a Location whose range is read
RenderLocation ==
    /\ refPc = "renderLoop"
    /\ refs[refIdx].value = "location"
    /\ refs[refIdx].readable
    /\ RefStep(<<[from |-> refIdx, content |-> "range text"]>>, "added",
               RenderNext(refIdx, Len(refs)))

\* PromptReferenceElement.render: openTextDocument throws
RenderLocationFails ==
    /\ refPc = "renderLoop"
    /\ refs[refIdx].value = "location"
    /\ ~refs[refIdx].readable
    /\ RefStep(<<[from |-> refIdx, content |-> "Error reading range"]>>, "unreadable",
               RenderNext(refIdx, Len(refs)))

\* PromptReferenceElement.render: a string value
RenderString ==
    /\ refPc = "renderLoop"
    /\ refs[refIdx].value = "string"
    /\ RefStep(<<[from |-> refIdx, content |-> "string value"]>>, "added",
               RenderNext(refIdx, Len(refs)))

\* PromptReferenceElement.render: any other value
RenderUnsupported ==
    /\ refPc = "renderLoop"
    /\ refs[refIdx].value = "other"
    /\ RefStep(<<[from |-> refIdx, content |-> "Unsupported reference type"]>>,
               "unsupported", RenderNext(refIdx, Len(refs)))

NextRefs ==
    \/ AddNoReferences
    \/ AddEnterLoop
    \/ AddInvalidReference
    \/ AddOtherReference
    \/ AddSelectionUnavailable
    \/ AddSelectionPushed
    \/ AddSelectionPushThrows
    \/ RenderNoReferences
    \/ RenderEnterMap
    \/ RenderUri
    \/ RenderUriFails
    \/ RenderLocation
    \/ RenderLocationFails
    \/ RenderString
    \/ RenderUnsupported

SpecRefs == InitRefs /\ [][NextRefs]_vars


(***************************************************************************)
(* Properties of the orchestrator and the handler.                         *)
(***************************************************************************)
\* the rounds whose for loop over the tool calls has finished
CompletedRounds ==
    {r \in 1..Len(toolCallRounds) :
        r < Len(toolCallRounds) \/ pc \notin {"invoke", "awaitTool"}}

InvokesOfRound(r) == {k \in 1..Len(invokeLog) : invokeLog[k].round = r}
NotFoundOfRound(r) == {k \in 1..Len(notFoundLog) : notFoundLog[k].round = r}
FailedRequests == {k \in 1..Len(sendLog) : ~sendLog[k].ok}

\* C1: in every finished round with N requested calls of which M name a
\* registered tool, exactly M invokeTool calls were made, exactly N-M 'Tool
\* not found' results were stored, and all N identifiers are in the cache.
C1_RoundAccounting ==
    \A r \in CompletedRounds :
        LET calls == toolCallRounds[r].toolCalls
            N == Len(calls)
            M == Cardinality({i \in 1..N : calls[i].name \in Registry})
        IN  /\ Cardinality(InvokesOfRound(r)) = M
            /\ Cardinality(NotFoundOfRound(r)) = N - M
            /\ \A i \in 1..N : calls[i].callId \in DOMAIN accumulatedToolResults

\* a finished round of two calls of which one names a registered tool
C1_Witness ==
    \E r \in CompletedRounds :
        LET calls == toolCallRounds[r].toolCalls
        IN  /\ Len(calls) = 2
            /\ Cardinality({i \in 1..2 : calls[i].name \in Registry}) = 1
            /\ pc = "send"

\* the last step was invokeTool throwing for call callIdx - 1 of the round
JustThrew ==
    /\ path = "tools"
    /\ pc \in {"invoke", "compose"}
    /\ callIdx > 1
    /\ Len(invokeLog) > 0
    /\ LET e == invokeLog[Len(invokeLog)]
       IN  /\ e.outcome = "threw"
           /\ e.round = Len(toolCallRounds)
           /\ e.idx = callIdx - 1
    /\ \A k \in NotFoundOfRound(Len(toolCallRounds)) : notFoundLog[k].idx < callIdx - 1

ThrowsOfRound(r) == {k \in InvokesOfRound(r) : invokeLog[k].outcome = "threw"}

\* C2: when invokeTool throws for a call, the error text is stored under the
\* call's identifier, the other calls of the round are still processed, the
\* turn goes on to the next dispatch (only a failed model request makes the
\* turn fail), and the turn returns success when the model stops asking for
\* tools.
C2_ToolErrorContained ==
    /\ JustThrew =>
          /\ toolCalls[callIdx - 1].callId \in DOMAIN accumulatedToolResults
          /\ accumulatedToolResults[toolCalls[callIdx - 1].callId] = ErrorInvokingTool
          /\ pc = IF callIdx <= Len(toolCalls) THEN "invoke" ELSE "compose"
    /\ \A r \in CompletedRounds :
          ThrowsOfRound(r) # {} =>
             \A i \in 1..Len(toolCallRounds[r].toolCalls) :
                \/ \E k \in InvokesOfRound(r) : invokeLog[k].idx = i
                \/ \E k \in NotFoundOfRound(r) : notFoundLog[k].idx = i
    /\ (pc = "catch" \/ (pc = "done" /\ ~result.success)) => FailedRequests # {}
    /\ (pc = "done" /\ path = "tools" /\ FailedRequests = {}) =>
          /\ result.success
          /\ dispatches[Len(dispatches)] = 0

\* a turn that returned success after a round whose first call threw and
\* whose second call was processed
C2_Witness ==
    /\ pc = "done"
    /\ result.success
    /\ \E r \in 1..Len(toolCallRounds) :
          /\ Len(toolCallRounds[r].toolCalls) = 2
          /\ \E k \in ThrowsOfRound(r) : invokeLog[k].idx = 1

\* C3 as stated: a successful tool-enabled turn has as many entries in its
\* round history as it made model requests, and one Done transition.
C3_HistoryHasEveryDispatch ==
    (pc = "done" /\ path = "tools" /\ result.success) =>
        /\ Len(toolCallRounds) = Len(sendLog)
        /\ doneCount = 1

\* C3 amended: a successful tool-enabled turn whose first k dispatches asked
\* for tools made exactly k+1 model requests, recorded exactly k rounds (the
\* last dispatch, which asked for none, is not recorded), and made exactly
\* one Done transition, at the first dispatch that returned no tool call.
C3_DispatchesAndRounds ==
    /\ doneCount <= 1
    /\ (path = "tools" /\ pc # "done") => \A i \in 1..Len(dispatches) : dispatches[i] > 0
    /\ (pc = "done" /\ path = "tools" /\ result.success) =>
          LET k == Len(toolCallRounds)
          IN  /\ Len(sendLog) = k + 1
              /\ Len(dispatches) = k + 1
              /\ \A i \in 1..k : /\ dispatches[i] > 0
                                 /\ Len(toolCallRounds[i].toolCalls) = dispatches[i]
              /\ dispatches[k + 1] = 0
              /\ doneCount = 1
              /\ result.toolCallsMetadata.toolCallRounds = toolCallRounds

\* a tool call, then a tool call, then none: three model requests, two rounds
C3_Witness ==
    /\ pc = "done"
    /\ path = "tools"
    /\ result.success
    /\ dispatches = <<1, 1, 0>>
    /\ Len(sendLog) = 3
    /\ Len(toolCallRounds) = 2

\* C4 (the claim): within a turn a tool is invoked at most once per call
\* identifier, also when the model repeats an identifier.
C4_InvokedOncePerIdentifier ==
    \A id \in CallIds :
        Cardinality({k \in 1..Len(invokeLog) : invokeLog[k].callId = id}) <= 1

\* C5 (the claim): the result cache is append-only: an identifier that has
\* a result keeps it, with the same value, in every later step of the turn.
C5_CacheAppendOnly ==
    [][\A id \in DOMAIN accumulatedToolResults :
          /\ id \in DOMAIN accumulatedToolResults'
          /\ accumulatedToolResults'[id] = accumulatedToolResults[id]]_vars

\* C6: the tool-enabled path is taken exactly when autoToolUse is true or
\* unset; on the tool-disabled path one model request is sent, tool-call
\* parts are ignored (no invokeTool, no round, no second request) and the
\* turn returns success.
C6_ToolDisabledPath ==
    /\ path = "tools" => autoToolUse \in {"true", "unset"}
    /\ path = "notools" => autoToolUse = "false"
    /\ (pc \notin {"start", "command"} /\ request.command \notin {"listTools", "listModels"})
          => path # "none"
    /\ path = "notools" =>
          /\ Len(sendLog) <= 1
          /\ invokeLog = <<>>
          /\ notFoundLog = <<>>
          /\ toolCallRounds = <<>>
          /\ toolCalls = <<>>
          /\ pc # "invoke"
          /\ pc = "done" => Len(sendLog) = 1
          /\ (pc = "done" /\ FailedRequests = {}) =>
                /\ result.success
                /\ ~result.toolCallsMetadata.present

\* a tool-disabled turn that returned success although the model streamed a
\* tool-call part
C6_Witness ==
    /\ path = "notools"
    /\ pc = "done"
    /\ result.success
    /\ callsLeft < MaxCalls

C8_DirectCommandTagged ==
    (pc = "done" /\ request.command \in {"listTools", "listModels"}) =>
        /\ sendLog = <<>>
        /\ result.success
        /\ result.command = request.command

Unresolvable(i) ==
    IF composer = "add"
    THEN \/ refs[i].id = "copilot.selection" /\ ~SelectionAvailable(editor)
         \/ i <= Len(refLog) /\ refLog[i] = "addFailed"
    ELSE refs[i].value \in {"uri", "location"} /\ ~refs[i].readable

\* reference i has a backing source the composer at work can resolve
ResolvableReference(i) ==
    IF composer = "add"
    THEN /\ refs[i].id = "copilot.selection"
         /\ SelectionAvailable(editor)
         /\ ~(i <= Len(refLog) /\ refLog[i] = "addFailed")
    ELSE \/ refs[i].value \in {"uri", "location"} /\ refs[i].readable
         \/ refs[i].value = "string"

Contributes(i) == \E m \in 1..Len(refMsgs) : refMsgs[m].from = i

\* C9 (the claim): when the composer is done, a reference that cannot be
\* resolved has added nothing to the messages, and every reference of the
\* list was processed and is in the messages if it can be resolved.
C9_BadReferenceSkipped ==
    refPc = "done" =>
        /\ Len(refLog) = Len(refs)
        /\ \A i \in 1..Len(refs) :
              /\ Unresolvable(i) => ~Contributes(i)
              /\ ResolvableReference(i) => Contributes(i)

(***************************************************************************)
(* A tool-enabled turn whose external calls all return, scheduled fairly:  *)
(* a continuation runs once the promise it awaits has settled.             *)
(***************************************************************************)
InitLive ==
    /\ Init
    /\ request = [command |-> "none", anchors |-> 0]
    /\ autoToolUse = "true"

NextLive ==
    \/ HandlerStart
    \/ HandleChatRequest
    \/ Compose
    \/ SendRequest
    \/ StreamTextPart
    \/ StreamToolCallPart
    \/ StreamEndToolCalls
    \/ StreamEndDone
    \/ InvokeToolNotFound
    \/ InvokeToolStart
    \/ InvokeToolReturns
    \/ InvokeToolThrows

SpecLive == InitLive /\ [][NextLive]_vars /\ WF_vars(NextLive)


(***************************************************************************)
(* A tool-enabled turn whose model streams several text parts.             *)
(***************************************************************************)
InitStream ==
    /\ request = [command |-> "none", anchors |-> 0]
    /\ autoToolUse = "true"
    /\ pc = "start"
    /\ path = "none"
    /\ out = <<>>
    /\ accumulatedToolResults = EmptyResults
    /\ toolCallRounds = <<>>
    /\ toolCalls = <<>>
    /\ responseStr = <<>>
    /\ callIdx = 1
    /\ messages = <<>>
    /\ result = Pending
    /\ sendLog = <<>>
    /\ invokeLog = <<>>
    /\ notFoundLog = <<>>
    /\ dispatches = <<>>
    /\ doneCount = 0
    /\ callsLeft = MaxCalls
    /\ textLeft = MaxStreamText
    /\ RefsIdle
    /\ HostIdle
    /\ SelIdle
    /\ TurnsIdle
    /\ UiIdle
    /\ StreamIdle
    /\ OrdIdle
    /\ HistIdle
    /\ CapyIdle

SpecStream == InitStream /\ [][NextLive]_vars


(***************************************************************************)
(* selectAppropriateModel.                                                 *)
(***************************************************************************)
\* strings are sequences of characters
O1 == <<"o", "1">>
Gpt4o == <<"g", "p", "t", "-", "4", "o">>

\* the families a request model may have
Families ==
    { <<>>, <<"o">>, O1, <<"o", "1", "-", "m">>, <<"o", "3">>,
      <<"g", "o", "1">>, Gpt4o }

\* the model of the request
RequestModels ==
    [vendor : {"copilot", "other"}, family : Families, id : {"requested"}]

\* what selectChatModels({vendor: 'copilot', family: 'gpt-4o'}) may return
Gpt4oModels == [vendor : {"copilot"}, family : {Gpt4o}, id : {"gpt-4o-a", "gpt-4o-b"}]
ModelLists == UNION {[1..n -> Gpt4oModels] : n \in 0..MaxModels}

\* variant: only the family 'o1' itself counts
StartsWithExact(s, prefix) == s = prefix

\* String.prototype.startsWith
StartsWith(s, prefix) ==
    /\ Len(s) >= Len(prefix)
    /\ SubSeq(s, 1, Len(prefix)) = prefix

\* currentModel.vendor === 'copilot' && currentModel.family.startsWith('o1')
Unsuitable(model) == model.vendor = "copilot" /\ StartsWith(model.family, O1)

InitSelect ==
    /\ MainIdle
    /\ HostIdle
    /\ RefsIdle
    /\ TurnsIdle
    /\ currentModel \in RequestModels
    /\ gpt4oModels \in ModelLists
    /\ selected = [vendor |-> "none", family |-> <<>>, id |-> "none"]
    /\ selPc = "start"
    /\ UiIdle
    /\ StreamIdle
    /\ OrdIdle
    /\ HistIdle
    /\ CapyIdle

SelectStep(next, model) ==
    /\ selPc' = next
    /\ selected' = model
    /\ UNCHANGED <<currentModel, gpt4oModels>>
    /\ UNCHANGED <<mainVars, refVars, hostVars, turnVars, uiVars, streamVars, ordVars, histVars, capyVars>>

\* the model of the request is suitable: return currentModel
SelectKeepsCurrent ==
    /\ selPc = "start"
    /\ ~Unsuitable(currentModel)
    /\ SelectStep("done", currentModel)

\* the model of the request is unsuitable: await selectChatModels
SelectQueriesModels ==
    /\ selPc = "start"
    /\ Unsuitable(currentModel)
    /\ SelectStep("query", selected)

\* if (models.length > 0) return models[0]
SelectFallsBack ==
    /\ selPc = "query"
    /\ Len(gpt4oModels) > 0
    /\ SelectStep("done", gpt4oModels[1])

\* no gpt-4o model was found: return currentModel
SelectNoFallback ==
    /\ selPc = "query"
    /\ Len(gpt4oModels) = 0
    /\ SelectStep("done", currentModel)

\* selectChatModels rejects: selectAppropriateModel rejects with it
SelectChatModelsRejects ==
    /\ selPc = "query"
    /\ SelectStep("threw", selected)

NextSelect ==
    \/ SelectKeepsCurrent
    \/ SelectQueriesModels
    \/ SelectFallsBack
    \/ SelectNoFallback
    \/ SelectChatModelsRejects

SpecSelect == InitSelect /\ [][NextSelect]_vars


(***************************************************************************)
(* Several chat turns at once: each call of runTools, interleaved with the *)
(* others at its awaits.                                                   *)
(***************************************************************************)
\* variant: the arrays are module-level, every turn uses the same ones
StoreOfShared(t) == 1

\* where the toolCallRounds and accumulatedToolResults of turn t live: both
\* are created by the call of runTools that serves the turn
StoreOf(t) == t

InitTurns ==
    /\ MainIdle
    /\ HostIdle
    /\ RefsIdle
    /\ SelIdle
    /\ tPc = [t \in Turns |-> "compose"]
    /\ tToolCalls = [t \in Turns |-> <<>>]
    /\ tCallIdx = [t \in Turns |-> 1]
    /\ tResult = [t \in Turns |-> NoToolCallsMetadata]
    /\ tCallsLeft = [t \in Turns |-> MaxTurnCalls]
    /\ roundsAt = [l \in Turns |-> <<>>]
    /\ resultsAt = [l \in Turns |-> EmptyResults]
    /\ tPushed = [t \in Turns |-> <<>>]
    /\ tStored = [t \in Turns |-> EmptyResults]
    /\ UiIdle
    /\ StreamIdle
    /\ OrdIdle
    /\ HistIdle
    /\ CapyIdle

TurnsFrame == UNCHANGED <<mainVars, refVars, hostVars, selVars, uiVars, streamVars, ordVars, histVars, capyVars>>

\* turn t renders its prompt from its rounds and results and sends it
TurnSendRequest(t) ==
    /\ tPc[t] = "compose"
    /\ tPc' = [tPc EXCEPT ![t] = "stream"]
    /\ tToolCalls' = [tToolCalls EXCEPT ![t] = <<>>]
    /\ UNCHANGED <<tCallIdx, tResult, tCallsLeft, roundsAt, resultsAt, tPushed, tStored>>
    /\ TurnsFrame

\* the model request of turn t fails: runTools rejects
TurnSendRequestFails(t) ==
    /\ tPc[t] = "compose"
    /\ tPc' = [tPc EXCEPT ![t] = "failed"]
    /\ UNCHANGED <<tToolCalls, tCallIdx, tResult, tCallsLeft, roundsAt, resultsAt,
                   tPushed, tStored>>
    /\ TurnsFrame

\* a LanguageModelToolCallPart arrives on the stream of turn t
TurnStreamToolCallPart(t) ==
    /\ tPc[t] = "stream"
    /\ tCallsLeft[t] > 0
    /\ \E n \in ToolNames, id \in CallIds :
          tToolCalls' = [tToolCalls EXCEPT ![t] = Append(@, [name |-> n, callId |-> id])]
    /\ tCallsLeft' = [tCallsLeft EXCEPT ![t] = @ - 1]
    /\ UNCHANGED <<tPc, tCallIdx, tResult, roundsAt, resultsAt, tPushed, tStored>>
    /\ TurnsFrame

\* the stream of turn t ended with tool calls: the round is pushed
TurnStreamEndToolCalls(t) ==
    /\ tPc[t] = "stream"
    /\ HasToolCalls(tToolCalls[t])
    /\ LET round == [response |-> <<>>, toolCalls |-> tToolCalls[t]]
       IN  /\ roundsAt' = [roundsAt EXCEPT ![StoreOf(t)] = Append(@, round)]
           /\ tPushed' = [tPushed EXCEPT ![t] = Append(@, round)]
    /\ tCallIdx' = [tCallIdx EXCEPT ![t] = 1]
    /\ tPc' = [tPc EXCEPT ![t] = "invoke"]
    /\ UNCHANGED <<tToolCalls, tResult, tCallsLeft, resultsAt, tStored>>
    /\ TurnsFrame

\* the stream of turn t ended without tool calls: the turn returns its
\* rounds and results as metadata
TurnStreamEndDone(t) ==
    /\ tPc[t] = "stream"
    /\ ~HasToolCalls(tToolCalls[t])
    /\ tResult' = [tResult EXCEPT ![t] =
                      [present |-> TRUE,
                       toolCallRounds |-> roundsAt[StoreOf(t)],
                       toolCallResults |-> resultsAt[StoreOf(t)]]]
    /\ tPc' = [tPc EXCEPT ![t] = "done"]
    /\ UNCHANGED <<tToolCalls, tCallIdx, tCallsLeft, roundsAt, resultsAt,
                   tPushed, tStored>>
    /\ TurnsFrame

\* the loop of turn t stores value v for its current call and moves on
TurnStore(t, v) ==
    LET call == tToolCalls[t][tCallIdx[t]]
    IN  /\ resultsAt' = [resultsAt EXCEPT ![StoreOf(t)] = CachePut(@, call.callId, v)]
        /\ tStored' = [tStored EXCEPT ![t] = CachePut(@, call.callId, v)]
        /\ tPc' = [tPc EXCEPT ![t] = AfterCall(tCallIdx[t], Len(tToolCalls[t]))]
        /\ tCallIdx' = [tCallIdx EXCEPT ![t] = @ + 1]
        /\ UNCHANGED <<tToolCalls, tResult, tCallsLeft, roundsAt, tPushed>>
        /\ TurnsFrame

\* the tool of the current call of turn t is not registered
TurnInvokeToolNotFound(t) ==
    /\ tPc[t] = "invoke"
    /\ ~ToolFound(tToolCalls[t][tCallIdx[t]].name)
    /\ TurnStore(t, ToolNotFound)

\* the tool of the current call of turn t is invoked and awaited
TurnInvokeToolStart(t) ==
    /\ tPc[t] = "invoke"
    /\ ToolFound(tToolCalls[t][tCallIdx[t]].name)
    /\ tPc' = [tPc EXCEPT ![t] = AfterInvokeStart(tCallIdx[t], Len(tToolCalls[t]))]
    /\ UNCHANGED <<tToolCalls, tCallIdx, tResult, tCallsLeft, roundsAt, resultsAt,
                   tPushed, tStored>>
    /\ TurnsFrame

\* the tool turn t awaits returns
TurnInvokeToolReturns(t) ==
    /\ tPc[t] = "awaitTool"
    /\ TurnStore(t, ToolOutput)

\* the tool turn t awaits throws
TurnInvokeToolThrows(t) ==
    /\ tPc[t] = "awaitTool"
    /\ TurnStore(t, ErrorInvokingTool)

NextTurns ==
    \E t \in Turns :
        \/ TurnSendRequest(t)
        \/ TurnSendRequestFails(t)
        \/ TurnStreamToolCallPart(t)
        \/ TurnStreamEndToolCalls(t)
        \/ TurnStreamEndDone(t)
        \/ TurnInvokeToolNotFound(t)
        \/ TurnInvokeToolStart(t)
        \/ TurnInvokeToolReturns(t)
        \/ TurnInvokeToolThrows(t)

SpecTurns == InitTurns /\ [][NextTurns]_vars


(***************************************************************************)
(* The feedback handler and the follow-up provider.                        *)
(***************************************************************************)
\* vscode.ChatResultFeedbackKind.Helpful, .Unhelpful, and anything else
FeedbackKinds == {"Helpful", "Unhelpful", "other"}

\* variant: an unknown kind is answered like an unhelpful one
FeedbackNotificationsLoud(kind) ==
    IF kind = "Helpful"
    THEN <<[level |-> "information"]>>
    ELSE <<[level |-> "warning"]>>

\* the switch of handleFeedback: the notifications one call shows
FeedbackNotifications(kind) ==
    CASE kind = "Helpful" -> <<[level |-> "information"]>>
      [] kind = "Unhelpful" -> <<[level |-> "warning"]>>
      [] OTHER -> <<>>

\* the prompts a followUps setting may list
FollowUpPrompts == {"Prove it.", "Explain this code in detail."}
FollowUpLists == UNION {[1..n -> FollowUpPrompts] : n \in 0..MaxFollowUps}
FollowUpsUnset == [set |-> FALSE, prompts |-> <<>>]
FollowUpSettings == {FollowUpsUnset} \cup [set : {TRUE}, prompts : FollowUpLists]

\* const defaultFollowUps in generateFollowups of participant.ts
DefaultFollowUps == <<"Explain this code in detail.", "Suggest possible improvements.">>

\* DEFAULT_FOLLOWUPS of followups.ts
DEFAULT_FOLLOWUPS == <<"Analyze your output systematically!", "Are you hungry?">>

\* followUps.map(prompt => ({prompt, label}))
FollowupsOf(prompts, mark) ==
    [i \in 1..Len(prompts) |-> [prompt |-> prompts[i], label |-> <<mark, prompts[i]>>]]

\* variant: the setting is not read
ConfiguredFollowUpsIgnored(setting) == DefaultFollowUps

\* config.get<string[]>('followUps', defaultFollowUps)
ConfiguredFollowUps(setting) == IF setting.set THEN setting.prompts ELSE DefaultFollowUps

\* the results and contexts a follow-up request may come with
FollowupResults == {"success", "failure"}
FollowupContexts == {"empty", "history"}

InitUi ==
    /\ MainIdle
    /\ HostIdle
    /\ RefsIdle
    /\ SelIdle
    /\ TurnsIdle
    /\ fbSeen = <<>>
    /\ fbNotes = <<>>
    /\ fuSetting \in FollowUpSettings
    /\ fuOut = <<>>
    /\ StreamIdle
    /\ OrdIdle
    /\ HistIdle
    /\ CapyIdle

UiFrame == UNCHANGED <<mainVars, refVars, hostVars, selVars, turnVars, streamVars, ordVars, histVars, capyVars>>

\* handleFeedback(feedback)
HandleFeedback ==
    /\ Len(fbSeen) < MaxFeedback
    /\ \E kind \in FeedbackKinds :
          /\ fbSeen' = Append(fbSeen, kind)
          /\ fbNotes' = fbNotes \o FeedbackNotifications(kind)
    /\ UNCHANGED <<fuSetting, fuOut>>
    /\ UiFrame

\* generateFollowups(result, context) of participant.ts
GenerateFollowups ==
    /\ Len(fuOut) < MaxFollowupCalls
    /\ \E res \in FollowupResults, ctx \in FollowupContexts :
          fuOut' = Append(fuOut,
                     [by |-> "participant.ts", result |-> res, context |-> ctx,
                      followups |-> FollowupsOf(ConfiguredFollowUps(fuSetting), "+")])
    /\ UNCHANGED <<fbSeen, fbNotes, fuSetting>>
    /\ UiFrame

\* generateFollowups(result, context) of followups.ts
GenerateFollowupsFixed ==
    /\ Len(fuOut) < MaxFollowupCalls
    /\ \E res \in FollowupResults, ctx \in FollowupContexts :
          fuOut' = Append(fuOut,
                     [by |-> "followups.ts", result |-> res, context |-> ctx,
                      followups |-> FollowupsOf(DEFAULT_FOLLOWUPS, "capy")])
    /\ UNCHANGED <<fbSeen, fbNotes, fuSetting>>
    /\ UiFrame

NextUi ==
    \/ HandleFeedback
    \/ GenerateFollowups
    \/ GenerateFollowupsFixed

SpecUi == InitUi /\ [][NextUi]_vars


(***************************************************************************)
(* The for loop over the tool calls of one round, run in the requested     *)
(* order and in a permuted order, with tools that answer a call the same   *)
(* way every time.                                                         *)
(***************************************************************************)
ToolCallParts == [name : ToolNames, callId : CallIds]
RoundCalls == UNION {[1..n -> ToolCallParts] : n \in 0..MaxRoundCalls}
Permutations(n) ==
    {p \in [1..n -> 1..n] : \A i, j \in 1..n : i # j => p[i] # p[j]}

\* what one iteration of the loop stores for a call
LoopResult(call) == IF ToolFound(call.name) THEN ToolOutput ELSE ToolNotFound

InitOrder ==
    /\ MainIdle
    /\ HostIdle
    /\ RefsIdle
    /\ SelIdle
    /\ TurnsIdle
    /\ UiIdle
    /\ StreamIdle
    /\ oCalls \in RoundCalls
    /\ oPerm \in Permutations(Len(oCalls))
    /\ oIdx = 1
    /\ oCache = EmptyResults
    /\ pIdx = 1
    /\ pCache = EmptyResults
    /\ HistIdle
    /\ CapyIdle

OrderFrame ==
    UNCHANGED <<mainVars, refVars, hostVars, selVars, turnVars, uiVars, streamVars, histVars, capyVars>>

\* one iteration of the loop over the calls as requested
RequestedOrderStep ==
    /\ oIdx <= Len(oCalls)
    /\ oCache' = CachePut(oCache, oCalls[oIdx].callId, LoopResult(oCalls[oIdx]))
    /\ oIdx' = oIdx + 1
    /\ UNCHANGED <<oCalls, oPerm, pIdx, pCache>>
    /\ OrderFrame

\* one iteration of the loop over the permuted calls
PermutedOrderStep ==
    /\ pIdx <= Len(oCalls)
    /\ LET call == oCalls[oPerm[pIdx]]
       IN  pCache' = CachePut(pCache, call.callId, LoopResult(call))
    /\ pIdx' = pIdx + 1
    /\ UNCHANGED <<oCalls, oPerm, oIdx, oCache>>
    /\ OrderFrame

NextOrder ==
    \/ RequestedOrderStep
    \/ PermutedOrderStep

SpecOrder == InitOrder /\ [][NextOrder]_vars


(***************************************************************************)
(* capy1ChatHandler, the earlier handler, in its two revisions with a      *)
(* try/catch: part_000, whose handleChatRequest returns nothing, and       *)
(* part_001, whose handleChatRequest returns a ChatResult.                 *)
(***************************************************************************)
CapyRevisions == {"part_000", "part_001"}
CapyCommands == {"none", "listmodels"}
Fragments == {"f1", "f2"}

CapyProgress == [kind |-> "progress", value |-> "capy1 is chewing on your request..."]
ErrorOccurred == "An error occurred while processing your request."
UnexpectedErrorOccurred == "An unexpected error occurred while processing your request."
EmptyResponseReturned == "The chat model returned an empty response."
EmptyResponseError == [isError |-> TRUE, message |-> "Empty response from chat model"]
ModelUnavailable == [isError |-> TRUE, message |-> "model not available"]
FailureTexts == {ErrorOccurred, UnexpectedErrorOccurred, EmptyResponseReturned}

CapyNotReturned == [returned |-> FALSE, success |-> FALSE, error |-> "none"]
CapySuccess == [returned |-> TRUE, success |-> TRUE, error |-> "none"]
CapyFailure(msg) == [returned |-> TRUE, success |-> FALSE, error |-> msg]

\* whether handleChatRequest of the revision returns a ChatResult that
\* capy1ChatHandler copies into its own result
HandsBackResult(rev) == rev = "part_001"

\* the text the catch block of capy1ChatHandler streams
OuterCatchText(rev) ==
    IF rev = "part_000" THEN ErrorOccurred ELSE UnexpectedErrorOccurred

InitCapy ==
    /\ MainIdle
    /\ HostIdle
    /\ RefsIdle
    /\ SelIdle
    /\ TurnsIdle
    /\ UiIdle
    /\ StreamIdle
    /\ OrdIdle
    /\ HistIdle
    /\ cRev \in CapyRevisions
    /\ cCommand \in CapyCommands
    /\ cAnchors \in RequestAnchors
    /\ cPc = "start"
    /\ cOut = <<>>
    /\ cError = NothingThrown
    /\ cModelFailed = FALSE
    /\ cResult = CapyNotReturned
    /\ cFragLeft = MaxFragments

CapyFrame ==
    UNCHANGED <<mainVars, refVars, hostVars, selVars, turnVars, uiVars, streamVars, ordVars, histVars>>

\* selectAppropriateModel returned; stream.progress(...)
CapySelectModel ==
    /\ cPc = "start"
    /\ cOut' = Append(cOut, CapyProgress)
    /\ cPc' = IF cCommand = "listmodels" THEN "list" ELSE "send"
    /\ UNCHANGED <<cRev, cCommand, cAnchors, cError, cModelFailed, cResult, cFragLeft>>
    /\ CapyFrame

\* selectAppropriateModel threw: no model is available
CapySelectModelFails ==
    /\ cPc = "start"
    /\ cError' = ModelUnavailable
    /\ cPc' = "outerCatch"
    /\ UNCHANGED <<cRev, cCommand, cAnchors, cOut, cModelFailed, cResult, cFragLeft>>
    /\ CapyFrame

\* handleListModels and the return that follows it
CapyListModels ==
    /\ cPc = "list"
    /\ cOut' = Append(cOut, Markdown("Available models"))
    /\ cResult' = CapySuccess
    /\ cPc' = "done"
    /\ UNCHANGED <<cRev, cCommand, cAnchors, cError, cModelFailed, cFragLeft>>
    /\ CapyFrame

\* model.sendRequest returned a response with a text stream
CapySendRequest ==
    /\ cPc = "send"
    /\ cPc' = "stream"
    /\ UNCHANGED <<cRev, cCommand, cAnchors, cOut, cError, cModelFailed, cResult, cFragLeft>>
    /\ CapyFrame

\* model.sendRequest rejected
CapySendRequestFails ==
    /\ cPc = "send"
    /\ cError' = ModelError
    /\ cModelFailed' = TRUE
    /\ cPc' = "innerCatch"
    /\ UNCHANGED <<cRev, cCommand, cAnchors, cOut, cResult, cFragLeft>>
    /\ CapyFrame

\* model.sendRequest returned a response without text: part_000 throws into
\* its own catch block, part_001 streams a message and returns a failure
CapyEmptyResponse ==
    /\ cPc = "send"
    /\ IF cRev = "part_000"
       THEN /\ cError' = EmptyResponseError
            /\ cPc' = "innerCatch"
            /\ UNCHANGED <<cOut, cResult>>
       ELSE /\ cOut' = Append(cOut, Markdown(EmptyResponseReturned))
            /\ cResult' = CapyFailure(EmptyResponseError.message)
            /\ cPc' = "done"
            /\ UNCHANGED cError
    /\ UNCHANGED <<cRev, cCommand, cAnchors, cModelFailed, cFragLeft>>
    /\ CapyFrame

\* for await (const fragment of chatResponse.text) stream.markdown(fragment)
CapyStreamFragment ==
    /\ cPc = "stream"
    /\ cFragLeft > 0
    /\ \E f \in Fragments : cOut' = Append(cOut, Markdown(f))
    /\ cFragLeft' = cFragLeft - 1
    /\ UNCHANGED <<cRev, cCommand, cAnchors, cPc, cError, cModelFailed, cResult>>
    /\ CapyFrame

\* the text stream threw
CapyStreamFails ==
    /\ cPc = "stream"
    /\ cError' = ModelError
    /\ cModelFailed' = TRUE
    /\ cPc' = "innerCatch"
    /\ UNCHANGED <<cRev, cCommand, cAnchors, cOut, cResult, cFragLeft>>
    /\ CapyFrame

\* the text stream ended: part_001 writes the references of the request
\* (addReferencesToResponse); handleChatRequest returns, and capy1ChatHandler
\* returns after it
CapyStreamEnd ==
    /\ cPc = "stream"
    /\ cOut' = IF cRev = "part_001" THEN cOut \o ReferenceWrites(cAnchors) ELSE cOut
    /\ cResult' = CapySuccess
    /\ cPc' = "done"
    /\ UNCHANGED <<cRev, cCommand, cAnchors, cError, cModelFailed, cFragLeft>>
    /\ CapyFrame

\* the catch block of handleChatRequest, and the return of capy1ChatHandler
\* that follows it
CapyInnerCatch ==
    /\ cPc = "innerCatch"
    /\ cOut' = Append(cOut, Markdown(ErrorOccurred))
    /\ cResult' = IF HandsBackResult(cRev) THEN CapyFailure(cError.message)
                  ELSE CapySuccess
    /\ cError' = NothingThrown
    /\ cPc' = "done"
    /\ UNCHANGED <<cRev, cCommand, cAnchors, cModelFailed, cFragLeft>>
    /\ CapyFrame

\* the catch block of capy1ChatHandler
CapyOuterCatch ==
    /\ cPc = "outerCatch"
    /\ cOut' = Append(cOut, Markdown(OuterCatchText(cRev)))
    /\ cResult' = CapyFailure(cError.message)
    /\ cError' = NothingThrown
    /\ cPc' = "done"
    /\ UNCHANGED <<cRev, cCommand, cAnchors, cModelFailed, cFragLeft>>
    /\ CapyFrame

NextCapy ==
    \/ CapySelectModel
    \/ CapySelectModelFails
    \/ CapyListModels
    \/ CapySendRequest
    \/ CapySendRequestFails
    \/ CapyEmptyResponse
    \/ CapyStreamFragment
    \/ CapyStreamFails
    \/ CapyStreamEnd
    \/ CapyInnerCatch
    \/ CapyOuterCatch

SpecCapy == InitCapy /\ [][NextCapy]_vars


C12_CancellationFailsTurn ==
    (cancelled /\ pc = "done") =>
        /\ out[Len(out)] = Markdown(HandlerApology)
        /\ result = FailureResult("Request cancelled")

\* C13 (the claim): once the cancellation token has fired, the turn sends no
\* further model request and starts no further tool round.
C13_NoNewWorkAfterCancellation ==
    [][cancelled =>
          /\ Len(sendLog') = Len(sendLog)
          /\ Len(toolCallRounds') = Len(toolCallRounds)]_vars

(***************************************************************************)
(* The order of the writes to the response stream.                         *)
(***************************************************************************)
\* the prompts rendered so far: one per model request, and the one that is
\* waiting to be sent
Renders == Len(sendLog) + (IF pc = "send" THEN 1 ELSE 0)

ReferencesWritten == {i \in 1..Len(out) : out[i].kind = "reference"}
ModelMarkdown ==
    {i \in 1..Len(out) : out[i].kind = "markdown" /\ out[i].value \in TextValues}

\* C14 (the claim): the progress indicator is the first write and no
\* reference citation comes before a markdown fragment of the turn.
C14_ProgressMarkdownThenReferences ==
    /\ \A i \in 1..Len(out) : out[i].kind = "progress" => i = 1
    /\ \A i, j \in 1..Len(out) :
          i < j => ~(out[i].kind = "reference" /\ out[j].kind = "markdown")

\* C14 (amended): the progress indicator is the first write and is written
\* once; every rendered prompt writes the citations of the request's
\* references before its model request is sent, so the citations of a
\* dispatch come before the markdown of that dispatch and there is one set
\* of citations per render.
C14_ReferencesBeforeMarkdown ==
    /\ out # <<>> => out[1] = Progress
    /\ \A i \in 1..Len(out) : out[i].kind = "progress" => i = 1
    /\ Cardinality(ReferencesWritten) = request.anchors * Renders
    /\ request.anchors > 0 =>
          \A j \in ModelMarkdown :
             Cardinality({i \in ReferencesWritten : i < j}) >= request.anchors

\* the citations of the first render, a markdown fragment of the model, and
\* then the citations of the second render
C14_Witness ==
    \E i, j, k \in 1..Len(out) :
        /\ i < j /\ j < k
        /\ out[i].kind = "reference"
        /\ j \in ModelMarkdown
        /\ out[k].kind = "reference"

(***************************************************************************)
(* Model selection.                                                        *)
(***************************************************************************)
\* the request model is a copilot model whose family begins with 'o1'
IsO1OfCopilot ==
    /\ currentModel.vendor = "copilot"
    /\ Len(currentModel.family) >= 2
    /\ currentModel.family[1] = "o"
    /\ currentModel.family[2] = "1"

\* C15: selectAppropriateModel returns the first copilot gpt-4o model when
\* the request model is a copilot model whose family begins with 'o1' and
\* such a gpt-4o model exists, and in every other case it returns the
\* request model itself; so it returns something other than the request
\* model exactly in the first case.
C15_FallbackExactlyForO1 ==
    selPc = "done" =>
        /\ (IsO1OfCopilot /\ Len(gpt4oModels) > 0) => selected = gpt4oModels[1]
        /\ ~(IsO1OfCopilot /\ Len(gpt4oModels) > 0) => selected = currentModel
        /\ selected # currentModel <=> (IsO1OfCopilot /\ Len(gpt4oModels) > 0)

\* the request model is copilot's 'o1-m', two gpt-4o models exist, and the
\* first of them was returned
C15_Witness ==
    /\ selPc = "done"
    /\ currentModel.vendor = "copilot"
    /\ currentModel.family = <<"o", "1", "-", "m">>
    /\ Len(gpt4oModels) = 2
    /\ gpt4oModels[1] # gpt4oModels[2]
    /\ selected = gpt4oModels[1]

LoopInvokes == {k \in 1..Len(invokeLog) : invokeLog[k].via = "loop"}

\* C17: at most one external call of the turn is in flight: the model
\* request while its stream is read, or the one tool the loop is waiting
\* for; the tools of a round are invoked in the order the model asked for
\* them, each after the calls before it have a result; and while a model
\* request is being sent or read no tool call of an earlier round is open.
C17_OneCallAtATime ==
    /\ Len(inFlight) <= 1
    /\ pc = "stream" <=> inFlight = <<RequestCall(Len(sendLog))>>
    /\ pc = "awaitTool" <=>
          (toolCallRounds # <<>>
           /\ inFlight = <<ToolCall(Len(toolCallRounds), callIdx)>>)
    /\ \A k1, k2 \in LoopInvokes :
          (k1 < k2 /\ invokeLog[k1].round = invokeLog[k2].round) =>
              invokeLog[k1].idx < invokeLog[k2].idx
    /\ pc \in {"invoke", "awaitTool"} =>
          /\ \A i \in 1..(callIdx - 1) :
                toolCalls[i].callId \in DOMAIN accumulatedToolResults
          /\ \A k \in LoopInvokes :
                invokeLog[k].outcome = "pending" =>
                    (pc = "awaitTool" /\ k = Len(invokeLog)
                     /\ invokeLog[k].idx = callIdx)
    /\ pc \in {"send", "stream"} =>
          /\ \A k \in LoopInvokes : invokeLog[k].outcome # "pending"
          /\ \A r \in 1..Len(toolCallRounds) :
                \A i \in 1..Len(toolCallRounds[r].toolCalls) :
                   toolCallRounds[r].toolCalls[i].callId
                      \in DOMAIN accumulatedToolResults

\* the loop waits for the second tool of a round, the first has its result
C17_Witness ==
    /\ pc = "awaitTool"
    /\ callIdx = 2
    /\ inFlight = <<ToolCall(1, 2)>>
    /\ toolCalls[1].callId # toolCalls[2].callId
    /\ toolCalls[1].callId \in DOMAIN accumulatedToolResults

(***************************************************************************)
(* When a round enters the round history.                                  *)
(***************************************************************************)
RoundResolved(r) ==
    \A i \in 1..Len(toolCallRounds[r].toolCalls) :
        toolCallRounds[r].toolCalls[i].callId \in DOMAIN accumulatedToolResults

C19_TurnStateIsPrivate ==
    /\ \A t, u \in Turns : t # u => StoreOf(t) # StoreOf(u)
    /\ \A t \in Turns :
          /\ roundsAt[StoreOf(t)] = tPushed[t]
          /\ resultsAt[StoreOf(t)] = tStored[t]
          /\ tPc[t] = "done" =>
                /\ tResult[t].toolCallRounds = tPushed[t]
                /\ tResult[t].toolCallResults = tStored[t]

\* turn 1 waits for a tool it invoked for the identifier c1 while turn 2,
\* which started and finished meanwhile, has returned another result under
\* the same identifier
C19_Witness ==
    /\ tPc[1] = "awaitTool"
    /\ tPc[2] = "done"
    /\ tToolCalls[1][1].callId = "c1"
    /\ "c1" \in DOMAIN tResult[2].toolCallResults
    /\ tResult[2].toolCallResults["c1"] = ToolNotFound
    /\ "c1" \notin DOMAIN resultsAt[StoreOf(1)]

(***************************************************************************)
(* A model that returns no text.                                           *)
(***************************************************************************)
\* the model requests of the turn went through and brought no text part
NoTextReturned ==
    /\ path # "none"
    /\ sendLog # <<>>
    /\ FailedRequests = {}
    /\ textLeft = MaxText

\* C20 (the claim): a turn whose model returned no text writes the
\* empty-response warning and returns a failure result.
C20_EmptyResponseFails ==
    (pc = "done" /\ NoTextReturned) =>
        /\ \E i \in 1..Len(out) : out[i] = Markdown(EmptyResponseWarning)
        /\ ~result.success

(***************************************************************************)
(* Feedback and follow-ups.                                                *)
(***************************************************************************)
KnownFeedback(kind) == kind \in {"Helpful", "Unhelpful"}

\* C21: the notifications shown are, in order, one information notification
\* for each Helpful signal and one warning notification for each Unhelpful
\* signal received; a signal of any other kind shows nothing, and what a
\* signal shows does not depend on the signals before it.
C21_FeedbackThreeWay ==
    LET answered == SelectSeq(fbSeen, KnownFeedback)
    IN  /\ Len(fbNotes) = Len(answered)
        /\ \A i \in 1..Len(fbNotes) :
              /\ answered[i] = "Helpful" => fbNotes[i].level = "information"
              /\ answered[i] = "Unhelpful" => fbNotes[i].level = "warning"
        /\ Cardinality({k \in 1..Len(fbSeen) : fbSeen[k] = "other"})
              = Len(fbSeen) - Len(fbNotes)

\* a helpful, an unknown and an unhelpful signal were handled
C21_Witness ==
    /\ fbSeen = <<"Helpful", "other", "Unhelpful">>
    /\ Len(fbNotes) = 2
    /\ fbNotes[1].level = "information"
    /\ fbNotes[2].level = "warning"

\* the list a call of generateFollowups is said to follow: the setting, or
\* the hardcoded default of the revision that answered
ClaimedFollowUps(call) ==
    IF fuSetting.set THEN fuSetting.prompts
    ELSE IF call.by = "participant.ts" THEN DefaultFollowUps ELSE DEFAULT_FOLLOWUPS

PromptsOf(call) == [i \in 1..Len(call.followups) |-> call.followups[i].prompt]

\* C22 (the claim): every call of generateFollowups returns one follow-up
\* per prompt of the configured list, in order, and of the hardcoded default
\* list when the setting is unset.
C22_FollowupsFromSetting ==
    \A k \in 1..Len(fuOut) : PromptsOf(fuOut[k]) = ClaimedFollowUps(fuOut[k])

\* C22 (amended): generateFollowups of participant.ts returns one follow-up
\* per prompt of the followUps setting, in order, and of its hardcoded
\* default list when the setting is unset; generateFollowups of followups.ts
\* returns one follow-up per prompt of its own hardcoded list whatever the
\* setting; in both, two calls return the same follow-ups whatever their
\* results and contexts.
C22_FollowupsPerRevision ==
    /\ \A k \in 1..Len(fuOut) :
          /\ fuOut[k].by = "participant.ts" =>
                PromptsOf(fuOut[k]) =
                   (IF fuSetting.set THEN fuSetting.prompts
                    ELSE <<"Explain this code in detail.",
                           "Suggest possible improvements.">>)
          /\ fuOut[k].by = "followups.ts" =>
                PromptsOf(fuOut[k]) =
                   <<"Analyze your output systematically!", "Are you hungry?">>
    /\ \A k1, k2 \in 1..Len(fuOut) :
          fuOut[k1].by = fuOut[k2].by => fuOut[k1].followups = fuOut[k2].followups

\* participant.ts answered a failed and a successful turn with the two
\* prompts of the setting, in their order
C22_Witness ==
    /\ Len(fuOut) = 2
    /\ fuSetting.set
    /\ fuSetting.prompts = <<"Prove it.", "Explain this code in detail.">>
    /\ fuOut[1].by = "participant.ts" /\ fuOut[2].by = "participant.ts"
    /\ fuOut[1].result = "failure" /\ fuOut[2].result = "success"
    /\ PromptsOf(fuOut[2]) = fuSetting.prompts

(***************************************************************************)
(* The parts of a response stream.                                         *)
(***************************************************************************)
\* the writes made since the current dispatch was sent
WrittenInDispatch == SubSeq(out, outMark + 1, Len(out))

\* C23: while the response stream of a dispatch of runTools is read and
\* after it has ended, the writes of that dispatch are the text parts that
\* arrived, as markdown and in their order, and nothing else (no tool-call
\* part is written); the collected text is those text parts in order and
\* the collected tool calls are the tool-call parts in order; and the round
\* recorded for the dispatch holds exactly that text and those calls.
C23_StreamPartsInOrder ==
    /\ pc \in {"stream", "invoke", "awaitTool"} =>
          /\ Len(WrittenInDispatch) = Len(textParts)
          /\ \A i \in 1..Len(textParts) :
                WrittenInDispatch[i] = [kind |-> "markdown", value |-> textParts[i]]
          /\ responseStr = textParts
          /\ toolCalls = callParts
    /\ pc \in {"invoke", "awaitTool"} =>
          /\ toolCallRounds[Len(toolCallRounds)].response = textParts
          /\ toolCallRounds[Len(toolCallRounds)].toolCalls = callParts

\* a round was recorded for a dispatch that brought two different text
\* parts and two different tool calls
C23_Witness ==
    /\ pc = "invoke"
    /\ Len(textParts) = 2
    /\ textParts[1] # textParts[2]
    /\ Len(callParts) = 2
    /\ callParts[1] # callParts[2]

(***************************************************************************)
(* The order in which the calls of a round are processed.                  *)
(***************************************************************************)
\* C24 (the claim): when both loops are through, the cache built in the
\* requested order and the cache built in the permuted order are the same.
C24_OrderIndependent ==
    (oIdx > Len(oCalls) /\ pIdx > Len(oCalls)) => oCache = pCache

(***************************************************************************)
(* The finished turn in the history of a later turn.                       *)
(***************************************************************************)
\* C25: once a later turn, on either path, has rendered the finished turn
\* as history, the rendering has invoked no tool, the finished turn's result
\* (its rounds and cached results included) is what it was before, and the
\* turn was rendered as tool-call rounds exactly when its metadata holds at
\* least one round, otherwise as one plain assistant message.
C25_HistoryReplayReadOnly ==
    hTurn # "none" =>
        /\ hInvokes = <<>>
        /\ result = hResult
        /\ hAs = "toolCalls" <=> Len(result.toolCallsMetadata.toolCallRounds) >= 1
        /\ hAs = "toolCalls" =>
              /\ hMessages[Len(hMessages)] = ToolResultsNote
              /\ Len(hMessages) > Len(result.toolCallsMetadata.toolCallRounds)
        /\ hAs # "toolCalls" =>
              /\ hAs = "assistant"
              /\ Len(hMessages) = 1
              /\ hMessages[1].role = "assistant"

\* a successful tool-enabled turn with two rounds, one of them with a call of
\* a registered tool and one with a call of an unknown tool, was rendered as
\* history
C25_Witness ==
    /\ hTurn = "notools"
    /\ result.success
    /\ Len(result.toolCallsMetadata.toolCallRounds) = 2
    /\ \E p \in CallPositions(result.toolCallsMetadata.toolCallRounds) :
          ToolFound(result.toolCallsMetadata.toolCallRounds[p[1]].toolCalls[p[2]].name)
    /\ \E p \in CallPositions(result.toolCallsMetadata.toolCallRounds) :
          ~ToolFound(result.toolCallsMetadata.toolCallRounds[p[1]].toolCalls[p[2]].name)

(***************************************************************************)
(* The messages of the ToolCalls prompt element.                           *)
(***************************************************************************)
\* the messages ToolCalls contributed to the prompt just composed: what
\* follows the messages a prompt without rounds consists of
ToolCallsMessages ==
    SubSeq(messages, Len(ToolUserPrompt(request, <<>>, EmptyResults, {})) + 1, Len(messages))

\* C26: in every prompt composed on the tool-enabled path, the messages of
\* ToolCalls are none when there is no round; otherwise they end with the
\* fixed user message, which is not a tool result, and all messages before it
\* are the rendered rounds (one assistant message per round, the rest tool
\* messages).
C26_ToolCallsEndWithUserMessage ==
    (pc = "send" /\ path = "tools") =>
        LET m == ToolCallsMessages
        IN  IF Len(toolCallRounds) = 0
            THEN m = <<>>
            ELSE /\ Len(m) > 0
                 /\ m[Len(m)].role = "user"
                 /\ m[Len(m)].content = ToolResultsNote.content
                 /\ \A i \in 1..Len(m) - 1 : m[i].role \in {"assistant", "tool"}
                 /\ Cardinality({i \in 1..Len(m) : m[i].role = "assistant"})
                       = Len(toolCallRounds)

\* a prompt composed after two rounds
C26_Witness ==
    /\ pc = "send"
    /\ path = "tools"
    /\ Len(toolCallRounds) = 2
    /\ Len(ToolCallsMessages) >= 5

(***************************************************************************)
(* The messages of one rendered round.                                     *)
(***************************************************************************)
\* the number of messages the rounds before round r take
RECURSIVE RoundOffset(_, _)
RoundOffset(rounds, r) ==
    IF r = 1 THEN 0
    ELSE RoundOffset(rounds, r - 1) + 1 + Len(rounds[r - 1].toolCalls)

\* the cache with only the results of the identifiers in ids
CacheOnly(cache, ids) == [id \in ids |-> cache[id]]

\* in the messages m the rounds are rendered one after the other, each as an
\* assistant message listing its calls followed by one tool message per call
RoundsRendered(m, rounds) ==
    \A r \in 1..Len(rounds) :
        LET at == RoundOffset(rounds, r)
            calls == rounds[r].toolCalls
        IN  /\ Len(m) >= at + 1 + Len(calls)
            /\ m[at + 1].role = "assistant"
            /\ m[at + 1].content.toolCalls = [i \in 1..Len(calls) |-> calls[i].callId]
            /\ \A i \in 1..Len(calls) :
                  /\ m[at + 1 + i].role = "tool"
                  /\ m[at + 1 + i].callId = calls[i].callId

\* C27: whenever a prompt of the tool-enabled path is rendered, the recorded
\* rounds are rendered, whatever part of the results is cached and whether
\* the invocations of the rendering return or fail, as one assistant
\* message per round listing the round's calls, followed by exactly one tool
\* message per call with the call's identifier, in the order of the calls;
\* the closing user message is the only other message.
C27_RoundRenderedWithItsResults ==
    /\ (pc = "compose" /\ path = "tools") =>
       \A ids \in SUBSET DOMAIN accumulatedToolResults :
          \A throwing \in {{}, CallPositions(toolCallRounds)} :
              LET m == RenderToolCalls(toolCallRounds,
                                       CacheOnly(accumulatedToolResults, ids), throwing)
              IN  /\ RoundsRendered(m, toolCallRounds)
                  /\ Len(toolCallRounds) > 0 =>
                        Len(m) = RoundOffset(toolCallRounds, Len(toolCallRounds) + 1) + 1
    /\ (pc = "send" /\ path = "tools") => RoundsRendered(ToolCallsMessages, toolCallRounds)

\* a prompt composed after two rounds, one with a call of an unknown tool and
\* one with a call of a registered tool whose invocation failed
C27_Witness ==
    /\ pc = "send"
    /\ path = "tools"
    /\ Len(toolCallRounds) = 2
    /\ \E i \in 1..Len(ToolCallsMessages) :
          ToolCallsMessages[i].role = "tool" /\ ToolCallsMessages[i].content = ToolNotFound
    /\ \E i \in 1..Len(ToolCallsMessages) :
          ToolCallsMessages[i].role = "tool" /\ ToolCallsMessages[i].content = ErrorInvokingTool

AskingDispatches ==
    LET Asked(parts) == Len(parts) > 0
    IN  SelectSeq(partsLog, Asked)

\* the call identifiers of the rounds
RoundIds(rounds) ==
    {rounds[p[1]].toolCalls[p[2]].callId : p \in CallPositions(rounds)}

\* C29: the metadata of a successful tool-enabled turn holds one round per
\* dispatch that asked for at least one tool call, in the order of the
\* dispatches and with the calls of that dispatch, and a result for exactly
\* the call identifiers of those rounds; a failed turn returns no tool-call
\* metadata.
C29_ReturnedMetadata ==
    /\ (pc = "done" /\ path = "tools" /\ result.success) =>
          LET metadata == result.toolCallsMetadata
          IN  /\ metadata.present
              /\ Len(metadata.toolCallRounds) = Len(AskingDispatches)
              /\ \A r \in 1..Len(AskingDispatches) :
                    metadata.toolCallRounds[r].toolCalls = AskingDispatches[r]
              /\ DOMAIN metadata.toolCallResults = RoundIds(metadata.toolCallRounds)
    /\ (pc = "done" /\ ~result.success) =>
          /\ ~result.toolCallsMetadata.present
          /\ result.toolCallsMetadata.toolCallRounds = <<>>
          /\ DOMAIN result.toolCallsMetadata.toolCallResults = {}

\* a successful turn of three dispatches, the first two asking for calls
\* with different identifiers
C29_Witness ==
    /\ pc = "done"
    /\ path = "tools"
    /\ result.success
    /\ Len(partsLog) = 3
    /\ Len(AskingDispatches) = 2
    /\ Cardinality(RoundIds(result.toolCallsMetadata.toolCallRounds)) = 2

(***************************************************************************)
(* A failed model request in capy1ChatHandler.                             *)
(***************************************************************************)
\* the failure messages streamed in the turn
FailureMessages ==
    {i \in 1..Len(cOut) : cOut[i].kind = "markdown" /\ cOut[i].value \in FailureTexts}

\* C30 (the claim): in both revisions, a turn whose model request failed
\* returns success = false with the message of the error, and exactly one
\* failure message was streamed in the turn.
C30_ModelFailureFailsTurn ==
    (cPc = "done" /\ cModelFailed) =>
        /\ cResult.returned
        /\ ~cResult.success
        /\ cResult.error = ModelError.message
        /\ Cardinality(FailureMessages) = 1


====
